---- MODULE Spec2Model ----
(***************************************************************************)
(* Models of two programs of the repository.                               *)
(*                                                                         *)
(* The Backlog Propagation Engine                                          *)
(* (src/PythonProjects/sim-service/backlog_propagation.py).                *)
(* One call of BacklogPropagationEngine.simulate_propagation is a run:     *)
(* Begin copies the request's initial items into the live list, then the   *)
(* while loop takes one step per calendar day (SkipDay when the date has   *)
(* no capacity entry, ProcessDay otherwise: age, decay, admit, SLA check,  *)
(* resolve, overflow, propagation count, snapshot), and Finish builds the  *)
(* response.                                                               *)
(* Dates are integers (days), the window is start_date..end_date.          *)
(* Hours are Python floats, with their rounding.                           *)
(*                                                                         *)
(* The call router (src/PythonProjects/CallRoute.py).                      *)
(* One CallRouter with its agents; every public method and every ACW timer *)
(* callback runs under the router's lock and is one step.  The two         *)
(* programs share no state: a run of one leaves the variables of the other *)
(* alone.                                                                  *)
(***************************************************************************)
EXTENDS Integers, Sequences, FiniteSets, TLC

VARIABLES
    request,          \* the BacklogPropagationRequest of this run
    pc,               \* "new" | "loop" | "done": position in simulate_propagation
    backlog_items,    \* self.backlog_items: the live list
    item_counter,     \* self.item_counter
    current_date,     \* loop variable of the while loop
    daily_snapshots,  \* snapshots appended so far
    removed_items,    \* item objects that were dropped from the live list
    day,              \* locals of the last loop iteration (stage results)
    agents,           \* CallRouter._agents: id -> Agent
    call_store,       \* CallRouter._call_store: id -> Call
    global_queue,     \* CallRouter._global_queue: the heap's entries
    waiting_since,    \* CallRouter._waiting_since: id -> arrival time
    round_robin_counters,        \* CallRouter._round_robin_counters
    active_assignments_total,    \* CallRouter._active_assignments_total
    active_assignments_partial,  \* CallRouter._active_assignments_partial
    timers,           \* started threading.Timer objects that have not fired
    clock             \* time.time(), in minutes

engine_vars == <<request, pc, backlog_items, item_counter, current_date,
                 daily_snapshots, removed_items, day>>

router_vars == <<agents, call_store, global_queue, waiting_since,
                 round_robin_counters, active_assignments_total,
                 active_assignments_partial, timers, clock>>

vars == <<engine_vars, router_vars>>

\* no router has been constructed
NoRouter ==
    /\ agents = <<>>
    /\ call_store = <<>>
    /\ global_queue = {}
    /\ waiting_since = <<>>
    /\ round_robin_counters = <<>>
    /\ active_assignments_total = 0
    /\ active_assignments_partial = 0
    /\ timers = <<>>
    /\ clock = 0

-----------------------------------------------------------------------------
(* Bounds of the model *)

\* end_date of multi-day requests (start_date is 1).
MaxDay == 2
\* largest max_backlog_capacity drawn for a profile.
MaxCapacity == 1
\* largest number of initial items of a multi-day request.
MaxInitial == 2
\* largest number of initial items of a single-day request.
MaxDayInitial == 2
\* end_date of the requests whose capacity comes and goes over the window.
WindowDays == 3
\* largest number of initial items of such a request.
MaxWindowInitial == 1
\* largest number of initial items of a request with odd efforts.
MaxHoursInitial == 2

-----------------------------------------------------------------------------
(* Values *)

\* Optional[...] = None
None == -1

\* date.today() in _apply_decay: the wall clock, outside the simulated window.
WallClockToday == 1000

\* timedelta(days=7) of the defer strategy.
DeferDays == 7

Priorities == {"low", "medium", "high", "critical"}
Complexities == {"simple", "moderate", "complex"}
Strategies == {"reject", "defer", "escalate", "outsource"}
TerminalStatuses == {"completed", "rejected", "outsourced"}

\* Python truthiness of an Optional[int]: None and 0 are falsy.
Truthy(x) == x # None /\ x # 0

\* _get_priority_order
PriorityOrder(priority) ==
    CASE priority = "low" -> 1
      [] priority = "medium" -> 2
      [] priority = "high" -> 3
      [] priority = "critical" -> 4
      [] OTHER -> 2

\* a plausible slip: the last return starts over
UpgradePriorityWraps(current) ==
    IF current = "low" THEN "medium"
    ELSE IF current = "medium" THEN "high"
    ELSE IF current = "high" THEN "critical"
    ELSE "low"

\* _upgrade_priority
UpgradePriority(current) ==
    IF current = "low" THEN "medium"
    ELSE IF current = "medium" THEN "high"
    ELSE IF current = "high" THEN "critical"
    ELSE "critical"

\* BacklogItem(...) with the model's object identity oid.
NewItem(oid, id, priority, complexity, effort, created, due, days) ==
    [oid |-> oid, id |-> id,
     priority |-> priority, original_priority |-> priority,
     complexity |-> complexity, estimated_effort_minutes |-> effort,
     created_date |-> created, due_date |-> due, completed_date |-> None,
     status |-> "pending", sla_breached |-> FALSE,
     days_in_backlog |-> days, propagation_count |-> 0,
     aging_date |-> None]

-----------------------------------------------------------------------------
(* Sequences *)

SeqRange(s) == {s[i] : i \in 1..Len(s)}

RECURSIVE SeqSum(_)
SeqSum(s) == IF s = <<>> THEN 0 ELSE Head(s) + SeqSum(Tail(s))

\* the elements of s at the indices of I that are >= k, in order
RECURSIVE Pick(_, _, _)
Pick(s, I, k) ==
    IF k > Len(s) THEN <<>>
    ELSE (IF k \in I THEN <<s[k]>> ELSE <<>>) \o Pick(s, I, k + 1)

Oids(s) == {s[i].oid : i \in 1..Len(s)}

\* lexicographic < on integer tuples of equal length
KeyLess(a, b) ==
    \E i \in 1..Len(a) :
        /\ a[i] < b[i]
        /\ \A j \in 1..(i - 1) : a[j] = b[j]

\* element j is placed before element i by Python's stable sorted()
ComesBefore(keys, reverse, j, i) ==
    \/ IF reverse THEN KeyLess(keys[i], keys[j]) ELSE KeyLess(keys[j], keys[i])
    \/ keys[i] = keys[j] /\ j < i

\* sorted(items, key=..., reverse=...): keys[i] is the key of items[i].
\* The sort is stable, also with reverse=True.
Sorted(items, keys, reverse) ==
    LET n == Len(items)
        rank(i) == Cardinality({j \in 1..n : ComesBefore(keys, reverse, j, i)})
    IN  [k \in 1..n |-> items[CHOOSE i \in 1..n : rank(i) = k - 1]]

-----------------------------------------------------------------------------
(* Stage 1: aging (simulate_propagation lines 609-616, _apply_aging) *)

\* a plausible slip: one level for every threshold that has elapsed
ApplyAgingCatchesUp(item, date, profile) ==
    IF ~profile.aging_enabled THEN item
    ELSE IF item.priority = "critical" THEN item
    ELSE LET since == IF item.aging_date # None THEN item.aging_date
                      ELSE item.created_date
             days_since_aging == date - since
         IN  IF days_since_aging >= 2 * profile.aging_threshold_days
             THEN [item EXCEPT !.priority = UpgradePriority(UpgradePriority(item.priority)),
                               !.aging_date = date]
             ELSE IF days_since_aging >= profile.aging_threshold_days
             THEN [item EXCEPT !.priority = UpgradePriority(item.priority),
                               !.aging_date = date]
             ELSE item

\* _apply_aging: the item after the call (the returned flag is priority changed
\* upgraded, see AgedCount).
ApplyAging(item, date, profile) ==
    IF ~profile.aging_enabled THEN item
    ELSE IF item.priority = "critical" THEN item
    ELSE LET since == IF item.aging_date # None THEN item.aging_date
                      ELSE item.created_date
             days_since_aging == date - since
         IN  IF days_since_aging >= profile.aging_threshold_days
             THEN [item EXCEPT !.priority = UpgradePriority(item.priority),
                               !.aging_date = date]
             ELSE item

\* a plausible slip: only pending items get older
AgeItemPendingOnly(item, date, req) ==
    LET older == IF item.status = "pending"
                 THEN [item EXCEPT !.days_in_backlog = @ + 1] ELSE item
    IN  IF req.enable_priority_aging THEN ApplyAging(older, date, req.profile)
        ELSE older

\* body of the aging loop for one item
AgeItem(item, date, req) ==
    LET older == [item EXCEPT !.days_in_backlog = @ + 1]
    IN  IF req.enable_priority_aging THEN ApplyAging(older, date, req.profile)
        ELSE older

AgeItems(items, date, req) == [i \in 1..Len(items) |-> AgeItem(items[i], date, req)]

\* aged_count: the calls of _apply_aging that returned True
AgedCount(before, after) ==
    Cardinality({i \in 1..Len(before) : after[i].aging_date # before[i].aging_date
                                        \/ after[i].priority # before[i].priority})

-----------------------------------------------------------------------------
(* Stage 2: decay (_apply_decay).  decay_rate and the random draws are in  *)
(* percent; draws[i] is random.random() of the i-th item.                  *)

DecayRates == {0, 50}
RandomDraws == {0, 99}

DecayKeeps(draw, decay_rate) == draw >= decay_rate

\* [remaining_items, the items marked completed]
ApplyDecay(items, decay_rate, draws) ==
    IF decay_rate <= 0 THEN [remaining |-> items, decayed |-> <<>>]
    ELSE LET kept == {i \in 1..Len(items) : DecayKeeps(draws[i], decay_rate)}
             complete(item) == [item EXCEPT !.status = "completed",
                                            !.completed_date = WallClockToday]
         IN  [remaining |-> Pick(items, kept, 1),
              decayed |-> [i \in 1..(Len(items) - Cardinality(kept)) |->
                              complete(Pick(items, (1..Len(items)) \ kept, 1)[i])]]

-----------------------------------------------------------------------------
(* Stage 3: admission (_process_new_items, _generate_item_id).             *)
(* The dicts of a demand are sequences of (key, count) pairs in dict order; *)
(* draws[k] is the (complexity, effort) drawn for the k-th generated item. *)

\* DailyDemand(...), total_estimated_effort_hours in whole hours
Demand(by_priority, by_complexity, hours) ==
    [new_items_by_priority |-> by_priority,
     new_items_by_complexity |-> by_complexity,
     total_estimated_effort_hours |-> hours]

\* effort_ranges
EffortRange(complexity) ==
    CASE complexity = "simple" -> 15..30
      [] complexity = "moderate" -> 30..60
      [] complexity = "complex" -> 60..120

\* the outcomes of random.choices and random.randint that are drawn
ItemDraws == {d \in {<<"simple", 30>>, <<"complex", 60>>} : d[2] \in EffortRange(d[1])}

RECURSIVE Repeat(_, _)
Repeat(x, n) == IF n <= 0 THEN <<>> ELSE <<x>> \o Repeat(x, n - 1)

\* the priorities of the generated items, in generation order
RECURSIVE DemandPriorities(_)
DemandPriorities(pairs) ==
    IF pairs = <<>> THEN <<>>
    ELSE Repeat(Head(pairs)[1], Head(pairs)[2]) \o DemandPriorities(Tail(pairs))

DueDateFor(date, profile) ==
    IF profile.sla_breach_threshold_days > 0
    THEN date + profile.sla_breach_threshold_days
    ELSE None

\* a plausible slip: the complexity is taken from the demand's breakdown, the
\* first complexity it names
ProcessNewItemsByComplexity(demand, date, profile, counter, draws) ==
    LET prios == DemandPriorities(demand.new_items_by_priority)
        named == demand.new_items_by_complexity
    IN  [k \in 1..Len(prios) |->
            NewItem(counter + k, counter + k, prios[k],
                    IF named # <<>> THEN named[1][1] ELSE draws[k][1], draws[k][2],
                    date, DueDateFor(date, profile), 0)]

\* new_items; the k-th item takes counter + k as its id (ITEM-%06d)
ProcessNewItems(demand, date, profile, counter, draws) ==
    LET prios == DemandPriorities(demand.new_items_by_priority)
    IN  [k \in 1..Len(prios) |->
            NewItem(counter + k, counter + k, prios[k], draws[k][1], draws[k][2],
                    date, DueDateFor(date, profile), 0)]

-----------------------------------------------------------------------------
(* Stage 4: SLA check (_check_sla_breaches) *)

\* a plausible slip: the flag is recomputed from the due date
CheckSlaItemRecomputed(item, date) ==
    [item EXCEPT !.sla_breached = (item.due_date # None /\ date > item.due_date)]

\* a plausible slip: the item is flagged on its due date already
CheckSlaItemOnDueDate(item, date) ==
    IF item.due_date # None /\ date >= item.due_date /\ ~item.sla_breached
    THEN [item EXCEPT !.sla_breached = TRUE]
    ELSE item

\* body of the loop of _check_sla_breaches for one item
CheckSlaItem(item, date) ==
    IF item.due_date # None /\ date > item.due_date /\ ~item.sla_breached
    THEN [item EXCEPT !.sla_breached = TRUE]
    ELSE item

CheckSlaBreaches(items, date) == [i \in 1..Len(items) |-> CheckSlaItem(items[i], date)]

BreachCount(before, after) ==
    Cardinality({i \in 1..Len(before) : after[i].sla_breached # before[i].sla_breached})

-----------------------------------------------------------------------------
(* Python floats (IEEE 754 binary64, round to nearest, ties to even).      *)
(* A float is its sign and its magnitude as a binary fixed-point numeral:  *)
(* mag = <<whole, l1, l2, l3, l4>> stands for                              *)
(*   whole + l1 / 2^15 + l2 / 2^30 + l3 / 2^45 + l4 / 2^60,                *)
(* each l a limb of 15 bits.  Every float between 2^-7 and 64 whose        *)
(* last place is 2^-60 or coarser is such a numeral, which covers the      *)
(* hours of a day and the efforts of whole minutes.                        *)

\* significant bits of a binary64
FloatPrecision == 53
\* bits of a limb, and the limbs after the point
LimbBits == 15
LimbBase == 32768
Limbs == 4

RECURSIVE Pow2(_)
Pow2(n) == IF n <= 0 THEN 1 ELSE 2 * Pow2(n - 1)

\* number of bits of n >= 1
RECURSIVE BitLength(_)
BitLength(n) == IF n <= 0 THEN 0 ELSE 1 + BitLength(n \div 2)

\* both computed once, for the bits of a limb
PowersOfTwo == [n \in 0..LimbBits |-> Pow2(n)]
BitLengths == [n \in 0..(LimbBase - 1) |-> BitLength(n)]

ZeroMag == <<0, 0, 0, 0, 0>>

\* lexicographic order is the numeric order of magnitudes
MagLess(a, b) == KeyLess(a, b)

\* a + b, limb by limb from the last place, with carry
MagAdd(a, b) ==
    LET s4 == a[5] + b[5]
        s3 == a[4] + b[4] + s4 \div LimbBase
        s2 == a[3] + b[3] + s3 \div LimbBase
        s1 == a[2] + b[2] + s2 \div LimbBase
    IN  <<a[1] + b[1] + s1 \div LimbBase,
          s1 % LimbBase, s2 % LimbBase, s3 % LimbBase, s4 % LimbBase>>

\* a - b for a >= b, limb by limb from the last place, with borrow
MagSub(a, b) ==
    LET d4 == a[5] - b[5]
        d3 == a[4] - b[4] - (IF d4 < 0 THEN 1 ELSE 0)
        d2 == a[3] - b[3] - (IF d3 < 0 THEN 1 ELSE 0)
        d1 == a[2] - b[2] - (IF d2 < 0 THEN 1 ELSE 0)
    IN  <<a[1] - b[1] - (IF d1 < 0 THEN 1 ELSE 0),
          d1 % LimbBase, d2 % LimbBase, d3 % LimbBase, d4 % LimbBase>>

\* exponent of the leading bit of a magnitude that is not zero
MagExponent(m) ==
    IF m[1] > 0 THEN BitLengths[m[1]] - 1
    ELSE IF m[2] > 0 THEN BitLengths[m[2]] - 1 - LimbBits
    ELSE IF m[3] > 0 THEN BitLengths[m[3]] - 1 - 2 * LimbBits
    ELSE IF m[4] > 0 THEN BitLengths[m[4]] - 1 - 3 * LimbBits
    ELSE BitLengths[m[5]] - 1 - 4 * LimbBits

\* the magnitude rounded to FloatPrecision significant bits, nearest, ties to
\* even; inexact says that the numeral is the truncation of a longer one.  The
\* places that are dropped are the last `drop` bits of the last limb.
MagRound(m, inexact) ==
    IF m = ZeroMag THEN m
    ELSE LET drop == Limbs * LimbBits - (FloatPrecision - 1 - MagExponent(m))
         IN  IF drop <= 0 THEN m
             ELSE LET unit == PowersOfTwo[drop]
                      low == m[5] % unit
                      half == unit \div 2
                      odd == (m[5] \div unit) % 2 = 1
                      up == \/ low > half
                            \/ low = half /\ (inexact \/ odd)
                      down == <<m[1], m[2], m[3], m[4], m[5] - low>>
                  IN  IF up THEN MagAdd(down, <<0, 0, 0, 0, unit>>) ELSE down

Float(neg, mag) == [neg |-> neg /\ mag # ZeroMag, mag |-> mag]

\* float(n) / float(d) for integers n >= 0 and d > 0 whose quotient is 2^-7 or
\* more: the long division, rounded
FloatDivide(n, d) ==
    LET r0 == n % d
        r1 == (r0 * LimbBase) % d
        r2 == (r1 * LimbBase) % d
        r3 == (r2 * LimbBase) % d
        r4 == (r3 * LimbBase) % d
    IN  Float(FALSE,
              MagRound(<<n \div d, (r0 * LimbBase) \div d, (r1 * LimbBase) \div d,
                         (r2 * LimbBase) \div d, (r3 * LimbBase) \div d>>,
                       r4 # 0))

\* a < b
FloatLess(a, b) ==
    IF a.neg # b.neg THEN a.neg
    ELSE IF a.neg THEN MagLess(b.mag, a.mag)
    ELSE MagLess(a.mag, b.mag)

\* a + b
FloatAdd(a, b) ==
    IF a.neg = b.neg THEN Float(a.neg, MagRound(MagAdd(a.mag, b.mag), FALSE))
    ELSE IF MagLess(a.mag, b.mag)
    THEN Float(b.neg, MagRound(MagSub(b.mag, a.mag), FALSE))
    ELSE Float(a.neg, MagRound(MagSub(a.mag, b.mag), FALSE))

\* a - b
FloatSubtract(a, b) == FloatAdd(a, Float(~b.neg, b.mag))

-----------------------------------------------------------------------------
(* Stage 5: resolution (_resolve_items).  The productivity modifier is in  *)
(* percent; the modifiers of the model (50, 100) are floats that the       *)
(* product with the hours is exact for.                                    *)

\* capacity.backlog_capacity_hours * capacity.productivity_modifier
\* the floats of n percent of an hour, computed once
HundredthsOfHour == [n \in 0..400 |-> FloatDivide(n, 100)]

AvailableHours(capacity) ==
    HundredthsOfHour[capacity.backlog_capacity_hours * capacity.productivity_modifier]

\* the floats n / 60.0 of the efforts up to the largest generated one, computed
\* once
MinutesInHours == [n \in 1..120 |-> FloatDivide(n, 60)]

\* item.estimated_effort_minutes / 60.0
EffortHours(item) == MinutesInHours[item.estimated_effort_minutes]

\* a plausible slip: the age is negated too (newest first)
ResolveSortKeyNewestFirst(item) == <<-PriorityOrder(item.priority), -item.days_in_backlog>>

\* key=lambda x: (-priority order, days_in_backlog)
ResolveSortKey(item) == <<-PriorityOrder(item.priority), item.days_in_backlog>>

\* reverse=True
ResolveSortReverse == TRUE

ResolveOrder(items) ==
    Sorted(items, [i \in 1..Len(items) |-> ResolveSortKey(items[i])], ResolveSortReverse)

\* a plausible slip: the comparison is turned around
HoursExceededInverted(effort_hours, available_hours) ==
    FloatLess(effort_hours, available_hours)

\* if effort_hours > available_hours
HoursExceeded(effort_hours, available_hours) == FloatLess(available_hours, effort_hours)

\* if capacity.max_items_per_day and items_processed >= capacity.max_items_per_day
ItemCapReached(capacity, items_processed) ==
    Truthy(capacity.max_items_per_day) /\ items_processed >= capacity.max_items_per_day

\* if complex and capacity.max_complex_items_per_day and complex_items_processed >= ...
ComplexCapReached(item, capacity, complex_items_processed) ==
    /\ item.complexity = "complex"
    /\ Truthy(capacity.max_complex_items_per_day)
    /\ complex_items_processed >= capacity.max_complex_items_per_day

\* a plausible slip: the effort is added back
DeductAdds(available_hours, effort_hours) == FloatAdd(available_hours, effort_hours)

\* available_hours -= effort_hours
Deduct(available_hours, effort_hours) == FloatSubtract(available_hours, effort_hours)

\* the for loop over sorted_items from index st.i on; st holds the loop's locals
\* and visits, the record of each iteration
RECURSIVE ResolveLoop(_, _, _, _)
ResolveLoop(sorted_items, capacity, date, st) ==
    IF st.i > Len(sorted_items) THEN st
    ELSE LET item == sorted_items[st.i]
             effort_hours == EffortHours(item)
             outcome ==
                 IF HoursExceeded(effort_hours, st.available_hours) THEN "no_hours"
                 ELSE IF ItemCapReached(capacity, st.items_processed) THEN "item_cap"
                 ELSE IF ComplexCapReached(item, capacity, st.complex_items_processed)
                      THEN "complex_cap"
                 ELSE "resolved"
             visit == [oid |-> item.oid, priority |-> item.priority,
                       days_in_backlog |-> item.days_in_backlog,
                       complexity |-> item.complexity,
                       estimated_effort_minutes |-> item.estimated_effort_minutes,
                       effort_hours |-> effort_hours,
                       available_hours |-> st.available_hours,
                       outcome |-> outcome]
             next ==
                 IF outcome # "resolved"
                 THEN [st EXCEPT !.i = @ + 1,
                                 !.remaining_items = Append(@, item),
                                 !.visits = Append(@, visit)]
                 ELSE [st EXCEPT !.i = @ + 1,
                                 !.resolved_items =
                                     Append(@, [item EXCEPT !.status = "completed",
                                                            !.completed_date = date]),
                                 !.available_hours = Deduct(@, effort_hours),
                                 !.items_processed = @ + 1,
                                 !.complex_items_processed =
                                     IF item.complexity = "complex" THEN @ + 1 ELSE @,
                                 !.visits = Append(@, visit)]
         IN  ResolveLoop(sorted_items, capacity, date, next)

\* _resolve_items: the loop's final locals; hours_used is
\* FloatSubtract(AvailableHours(capacity), available_hours)
ResolveItems(items, capacity, date) ==
    ResolveLoop(ResolveOrder(items), capacity, date,
                [i |-> 1, available_hours |-> AvailableHours(capacity),
                 items_processed |-> 0, complex_items_processed |-> 0,
                 resolved_items |-> <<>>, remaining_items |-> <<>>, visits |-> <<>>])

-----------------------------------------------------------------------------
(* Stage 6: overflow (_handle_overflow) *)

\* reject: key=lambda x: (priority order, -days_in_backlog), reverse=True
RejectOrder(items) ==
    Sorted(items,
           [i \in 1..Len(items) |->
               <<PriorityOrder(items[i].priority), -items[i].days_in_backlog>>],
           TRUE)

\* defer, escalate, outsource: key=lambda x: priority order
LowestFirst(items) ==
    Sorted(items, [i \in 1..Len(items) |-> <<PriorityOrder(items[i].priority)>>], FALSE)

\* a plausible slip: the slice is taken at overflow_count
RejectKeptAtOverflowCount(sorted_items, max_capacity) ==
    SubSeq(sorted_items, 1, Len(sorted_items) - max_capacity)

\* kept_items = sorted_items[:max_capacity]
RejectKept(sorted_items, max_capacity) == SubSeq(sorted_items, 1, max_capacity)

\* a plausible slip: the slice of the rejected items starts one item early
RejectedFromLastKept(sorted_items, max_capacity) ==
    LET tail == SubSeq(sorted_items, IF max_capacity > 0 THEN max_capacity ELSE 1,
                       Len(sorted_items))
    IN  [i \in 1..Len(tail) |-> [tail[i] EXCEPT !.status = "rejected"]]

\* rejected_items = sorted_items[max_capacity:], each marked rejected
Rejected(sorted_items, max_capacity) ==
    LET tail == SubSeq(sorted_items, max_capacity + 1, Len(sorted_items))
    IN  [i \in 1..Len(tail) |-> [tail[i] EXCEPT !.status = "rejected"]]

\* a plausible slip: the slice is taken from the other end of the sorted list
MarkedFromTop(items, overflow_count) ==
    Oids(SubSeq(LowestFirst(items), Len(items) - overflow_count + 1, Len(items)))

\* sorted_items[:overflow_count]
Marked(items, overflow_count) == Oids(SubSeq(LowestFirst(items), 1, overflow_count))

DeferItem(item, date) ==
    [item EXCEPT !.status = "deferred", !.due_date = date + DeferDays]

\* a plausible slip: the item is marked but keeps its priority
EscalateItemStatusOnly(item) == [item EXCEPT !.status = "escalated"]

EscalateItem(item) ==
    [item EXCEPT !.priority = UpgradePriority(item.priority), !.status = "escalated"]

OutsourceItem(item) == [item EXCEPT !.status = "outsourced"]

\* a plausible slip: the list is returned as it is, like defer and escalate do
OutsourceKeptAll(items) == items

\* [item for item in items if item.status != ItemStatus.OUTSOURCED]
OutsourceKept(items) == SelectSeq(items, LAMBDA x : x.status # "outsourced")

\* _handle_overflow: [items: the returned list, dropped: the items that are not
\* in it any more, overflow_count]
HandleOverflow(items, max_capacity, strategy, date) ==
    IF max_capacity = None \/ Len(items) <= max_capacity
    THEN [items |-> items, dropped |-> <<>>, overflow_count |-> 0]
    ELSE LET overflow_count == Len(items) - max_capacity
             marked == Marked(items, overflow_count)
             mutate(f(_)) == [i \in 1..Len(items) |->
                                 IF items[i].oid \in marked THEN f(items[i])
                                 ELSE items[i]]
         IN  CASE strategy = "reject" ->
                    [items |-> RejectKept(RejectOrder(items), max_capacity),
                     dropped |-> Rejected(RejectOrder(items), max_capacity),
                     overflow_count |-> overflow_count]
               [] strategy = "defer" ->
                    [items |-> mutate(LAMBDA x : DeferItem(x, date)),
                     dropped |-> <<>>,
                     overflow_count |-> overflow_count]
               [] strategy = "escalate" ->
                    [items |-> mutate(EscalateItem),
                     dropped |-> <<>>,
                     overflow_count |-> overflow_count]
               [] strategy = "outsource" ->
                    LET all == mutate(OutsourceItem)
                    IN  [items |-> OutsourceKept(all),
                         dropped |-> SelectSeq(all, LAMBDA x :
                                         x.oid \notin Oids(OutsourceKept(all))),
                         overflow_count |-> overflow_count]
               [] OTHER -> [items |-> items, dropped |-> <<>>, overflow_count |-> 0]

-----------------------------------------------------------------------------
(* Stages 7-9: propagation counts and the snapshot *)

\* a plausible slip: every live item is counted, whatever its status
CountPropagationAnyStatus(items) ==
    [i \in 1..Len(items) |-> [items[i] EXCEPT !.propagation_count = @ + 1]]

\* for item in self.backlog_items: if pending: propagation_count += 1
CountPropagation(items) ==
    [i \in 1..Len(items) |->
        IF items[i].status = "pending"
        THEN [items[i] EXCEPT !.propagation_count = @ + 1]
        ELSE items[i]]

\* a plausible slip: the rate is computed as a plain ratio, nothing of nothing
\* being 0
CreateSnapshotPlainRatio(items, date, metrics) ==
    LET sla_breached == Cardinality({i \in 1..Len(items) : items[i].sla_breached})
        total_with_sla == Cardinality({i \in 1..Len(items) : items[i].due_date # None})
    IN  [snapshot_date |-> date,
         total_items |-> Len(items),
         sla_breached_count |-> sla_breached,
         sla_compliance_rate |->
             IF total_with_sla > 0
             THEN <<(total_with_sla - sla_breached) * 100, total_with_sla>>
             ELSE <<0, 1>>,
         overflow_count |-> metrics.overflow_count,
         items_propagated |-> metrics.propagated,
         items_aged_up |-> metrics.aged_up,
         items_resolved |-> metrics.resolved,
         new_items |-> metrics.new_items]

\* _create_snapshot, the fields the response's counts rest on;
\* sla_compliance_rate is the exact fraction <<numerator, denominator>>
CreateSnapshot(items, date, metrics) ==
    LET sla_breached == Cardinality({i \in 1..Len(items) : items[i].sla_breached})
        total_with_sla == Cardinality({i \in 1..Len(items) : items[i].due_date # None})
    IN  [snapshot_date |-> date,
         total_items |-> Len(items),
         sla_breached_count |-> sla_breached,
         sla_compliance_rate |->
             IF total_with_sla > 0
             THEN <<(total_with_sla - sla_breached) * 100, total_with_sla>>
             ELSE <<100, 1>>,
         overflow_count |-> metrics.overflow_count,
         items_propagated |-> metrics.propagated,
         items_aged_up |-> metrics.aged_up,
         items_resolved |-> metrics.resolved,
         new_items |-> metrics.new_items]

-----------------------------------------------------------------------------
(* Requests.  daily_capacities and daily_demands are the lookups            *)
(* capacity_by_date and demand_by_date: functions on the dates that have   *)
(* an entry.                                                               *)

StartDate == 1

Capacity(hours, modifier, max_items, max_complex) ==
    [backlog_capacity_hours |-> hours, productivity_modifier |-> modifier,
     max_items_per_day |-> max_items, max_complex_items_per_day |-> max_complex]

Profile(decay, max_capacity, aging, threshold, strategy, sla_days) ==
    [decay_rate |-> decay, max_backlog_capacity |-> max_capacity,
     aging_enabled |-> aging, aging_threshold_days |-> threshold,
     overflow_strategy |-> strategy, sla_breach_threshold_days |-> sla_days]

\* an item of initial_backlog_items: the caller's id, fields from a template
InitialItem(i, t) ==
    NewItem(i, 100 + i, t.priority, t.complexity, t.effort, t.created, t.due, t.days)

Template(priority, complexity, effort, created, due, days) ==
    [priority |-> priority, complexity |-> complexity, effort |-> effort,
     created |-> created, due |-> due, days |-> days]

InitialBacklogs(templates, max) ==
    UNION {{[i \in 1..n |-> InitialItem(i, f[i])] : f \in [1..n -> templates]} : n \in 0..max}

Lookups(dates, entries) == UNION {[D -> entries] : D \in SUBSET dates}

Request(end, profile, items, capacities, demands, aging, sla) ==
    [start_date |-> StartDate, end_date |-> end, profile |-> profile,
     initial_backlog_items |-> items,
     daily_capacities |-> capacities, daily_demands |-> demands,
     enable_priority_aging |-> aging, enable_sla_tracking |-> sla]

\* the profiles of the multi-day requests: no ceiling, every ceiling with every
\* overflow strategy, and decay under a ceiling
Profiles ==
    {Profile(0, None, TRUE, 1, "reject", 1)}
    \cup {Profile(0, m, TRUE, 1, s, 1) : m \in 0..MaxCapacity, s \in Strategies}
    \cup {Profile(d, MaxCapacity, TRUE, 1, "outsource", 1) : d \in DecayRates \ {0}}

\* a small low item due after the window, and a large high item that is overdue
Templates ==
    {Template("low", "simple", 30, 0, 9, 1),
     Template("high", "complex", 60, 0, 0, 2)}

\* half an hour a day
Capacities == {Capacity(1, 50, None, None)}

Demands == {Demand(<<<<"medium", 1>>>>, <<<<"moderate", 1>>>>, 1)}

\* multi-day requests
Requests ==
    {Request(MaxDay, p, b, c, d, TRUE, TRUE) :
        p \in Profiles, b \in InitialBacklogs(Templates, MaxInitial),
        c \in Lookups(StartDate..MaxDay, Capacities),
        d \in Lookups(StartDate..MaxDay, Demands)}

\* the default profile, with the default aging threshold of 3 days
DefaultProfile == Profile(0, None, TRUE, 3, "reject", 1)

DayTemplates ==
    {Template(p, ce[1], ce[2], 0, 5, n) :
        p \in {"low", "high"}, ce \in {<<"simple", 30>>, <<"complex", 60>>},
        n \in {1, 3}}

\* 30, 60 and 120 minutes of available time, with and without the per-day caps
DayCapacities ==
    {Capacity(hm[1], hm[2], caps[1], caps[2]) :
        hm \in {<<1, 50>>, <<1, 100>>, <<2, 100>>},
        caps \in {<<None, None>>, <<0, None>>, <<1, None>>,
                  <<None, 0>>, <<None, 1>>, <<1, 1>>}}

\* single-day requests: every capacity shape against every short backlog
DayRequests ==
    {Request(StartDate, DefaultProfile, b, c, d, TRUE, TRUE) :
        b \in InitialBacklogs(DayTemplates, MaxDayInitial),
        c \in Lookups({StartDate}, DayCapacities),
        d \in Lookups({StartDate}, Demands)}

\* requests over a longer window: days with no capacity entry, with zero hours
\* and with two hours; aging every day, every second day and switched off; due
\* dates present and absent; a demand of one item, of none, or no demand entry
\* on the first day.  Ids are numbers: n < 100 stands for "ITEM-%06d" % n, the
\* format of _generate_item_id, 100 + i for any other string of the caller.
WindowProfiles ==
    {Profile(0, None, TRUE, 1, "reject", 1),
     Profile(0, None, TRUE, 2, "reject", 0),
     Profile(0, None, FALSE, 1, "reject", 1)}

\* a fresh low item without due date, and an old medium item due on day 2
WindowTemplates ==
    {Template("low", "simple", 30, StartDate, None, 0),
     Template("medium", "moderate", 60, StartDate - 6, StartDate + 1, 6)}

\* the first initial item carries an id of the caller's own format or one of the
\* generated format (as the items of an earlier response do)
WindowBacklogs ==
    UNION {{[i \in 1..n |->
               NewItem(i, IF i = 1 THEN id1 ELSE 100 + i, f[i].priority, f[i].complexity,
                       f[i].effort, f[i].created, f[i].due, f[i].days)] :
            f \in [1..n -> WindowTemplates], id1 \in {101, MaxWindowInitial + 1}} :
           n \in 0..MaxWindowInitial}

WindowCapacities == {Capacity(0, 100, None, None), Capacity(2, 100, None, None)}

WindowDemands ==
    {Demand(<<<<"low", 1>>>>, <<<<"simple", 1>>>>, 1),
     Demand(<<<<"low", 0>>>>, <<<<"simple", 0>>>>, 0)}

WindowRequests ==
    {Request(WindowDays, p, b, c, d, TRUE, TRUE) :
        p \in WindowProfiles, b \in WindowBacklogs,
        c \in Lookups(StartDate..WindowDays, WindowCapacities),
        d \in Lookups({StartDate}, WindowDemands)}

\* requests whose efforts are not binary fractions of an hour: 25 and 35
\* minutes, against one hour a day (as 1 x 1.0 and as 2 x 0.5) and two hours
HoursTemplates ==
    {Template("low", "simple", 25, 0, 5, 1),
     Template("medium", "moderate", 35, 0, 5, 1)}

HoursCapacities ==
    {Capacity(1, 100, None, None), Capacity(2, 50, None, None),
     Capacity(2, 100, None, None)}

\* one medium item a day, announced as one moderate item of an hour or as
\* three complex items of eight hours
HoursDemands ==
    {Demand(<<<<"medium", 1>>>>, <<<<"moderate", 1>>>>, 1),
     Demand(<<<<"medium", 1>>>>, <<<<"complex", 3>>>>, 8)}

HoursRequests ==
    {Request(MaxDay, DefaultProfile, b, c, d, TRUE, TRUE) :
        b \in InitialBacklogs(HoursTemplates, MaxHoursInitial),
        c \in Lookups(StartDate..MaxDay, HoursCapacities),
        d \in Lookups({StartDate}, HoursDemands)}

-----------------------------------------------------------------------------
(* The run *)

NoDay ==
    [processed |-> FALSE, date |-> None, start_items |-> <<>>, aged |-> <<>>,
     decayed |-> <<>>, new_items |-> <<>>, checked |-> <<>>, visits |-> <<>>,
     resolved_items |-> <<>>, available_hours |-> Float(FALSE, ZeroMag),
     remaining |-> <<>>, after_overflow |-> <<>>,
     dropped |-> <<>>, metrics |-> <<>>]

\* BacklogPropagationEngine.__init__
Init ==
    /\ request \in Requests
    /\ pc = "new"
    /\ backlog_items = <<>>
    /\ item_counter = 0
    /\ current_date = None
    /\ daily_snapshots = <<>>
    /\ removed_items = {}
    /\ day = NoDay
    /\ NoRouter

\* simulate_propagation, lines 584-594
Begin ==
    /\ pc = "new"
    /\ pc' = "loop"
    /\ backlog_items' = request.initial_backlog_items
    /\ item_counter' = Len(request.initial_backlog_items)
    /\ current_date' = request.start_date
    /\ daily_snapshots' = <<>>
    /\ UNCHANGED router_vars
    /\ UNCHANGED <<request, removed_items, day>>

\* a plausible slip: the date is skipped after the aging stage
SkipDayAfterAging ==
    /\ pc = "loop"
    /\ current_date <= request.end_date
    /\ current_date \notin DOMAIN request.daily_capacities
    /\ current_date' = current_date + 1
    /\ backlog_items' = AgeItems(backlog_items, current_date, request)
    /\ day' = [NoDay EXCEPT !.date = current_date, !.start_items = backlog_items]
    /\ UNCHANGED router_vars
    /\ UNCHANGED <<request, pc, item_counter, daily_snapshots, removed_items>>

\* one iteration of the while loop on a date without capacity entry
SkipDay ==
    /\ pc = "loop"
    /\ current_date <= request.end_date
    /\ current_date \notin DOMAIN request.daily_capacities
    /\ current_date' = current_date + 1
    /\ day' = [NoDay EXCEPT !.date = current_date, !.start_items = backlog_items]
    /\ UNCHANGED router_vars
    /\ UNCHANGED <<request, pc, backlog_items, item_counter, daily_snapshots,
                   removed_items>>

\* the priorities of the items that the date's demand generates
NewPriorities(req, date) ==
    IF date \in DOMAIN req.daily_demands
    THEN DemandPriorities(req.daily_demands[date].new_items_by_priority)
    ELSE <<>>

\* a plausible slip: the new items are admitted before the aging stage (and
\* are kept by the decay stage)
DayResultAdmitsFirst(req, items, counter, date, decay_draws, item_draws) ==
    LET capacity == req.daily_capacities[date]
        profile == req.profile
        new_items == IF date \in DOMAIN req.daily_demands
                     THEN ProcessNewItems(req.daily_demands[date], date, profile,
                                          counter, item_draws)
                     ELSE <<>>
        aged == AgeItems(items \o new_items, date, req)
        decay == ApplyDecay(aged, profile.decay_rate,
                            decay_draws \o [k \in 1..Len(new_items) |-> 99])
        admitted == decay.remaining
        checked == IF req.enable_sla_tracking
                   THEN CheckSlaBreaches(admitted, date)
                   ELSE admitted
        res == ResolveItems(checked, capacity, date)
        over == HandleOverflow(res.remaining_items, profile.max_backlog_capacity,
                               profile.overflow_strategy, date)
        final == CountPropagation(over.items)
        metrics == [aged_up |-> AgedCount(items \o new_items, aged),
                    new_items |-> Len(new_items),
                    sla_breaches |-> IF req.enable_sla_tracking
                                     THEN BreachCount(admitted, checked) ELSE 0,
                    resolved |-> Len(res.resolved_items),
                    capacity_used_hours |->
                        FloatSubtract(AvailableHours(capacity), res.available_hours),
                    overflow_count |-> over.overflow_count,
                    propagated |-> Len(over.items)]
    IN  [backlog_items |-> final,
         item_counter |-> counter + Len(new_items),
         removed |-> SeqRange(decay.decayed) \cup SeqRange(res.resolved_items)
                         \cup SeqRange(over.dropped),
         snapshot |-> CreateSnapshot(final, date, metrics),
         day |-> [processed |-> TRUE, date |-> date,
                  start_items |-> items, aged |-> aged,
                  decayed |-> decay.decayed, new_items |-> new_items,
                  checked |-> checked, visits |-> res.visits,
                  resolved_items |-> res.resolved_items,
                  available_hours |-> res.available_hours,
                  remaining |-> res.remaining_items,
                  after_overflow |-> over.items,
                  dropped |-> over.dropped, metrics |-> metrics]]

\* the body of the while loop on a date with a capacity entry, lines 609-671:
\* what it leaves in self.backlog_items and self.item_counter, the items it
\* took out of the list, the snapshot it appends and its locals
DayResult(req, items, counter, date, decay_draws, item_draws) ==
    LET capacity == req.daily_capacities[date]
        profile == req.profile
        aged == AgeItems(items, date, req)
        decay == ApplyDecay(aged, profile.decay_rate, decay_draws)
        new_items == IF date \in DOMAIN req.daily_demands
                     THEN ProcessNewItems(req.daily_demands[date], date, profile,
                                          counter, item_draws)
                     ELSE <<>>
        admitted == decay.remaining \o new_items
        checked == IF req.enable_sla_tracking
                   THEN CheckSlaBreaches(admitted, date)
                   ELSE admitted
        res == ResolveItems(checked, capacity, date)
        over == HandleOverflow(res.remaining_items, profile.max_backlog_capacity,
                               profile.overflow_strategy, date)
        final == CountPropagation(over.items)
        metrics == [aged_up |-> AgedCount(items, aged),
                    new_items |-> Len(new_items),
                    sla_breaches |-> IF req.enable_sla_tracking
                                     THEN BreachCount(admitted, checked) ELSE 0,
                    resolved |-> Len(res.resolved_items),
                    capacity_used_hours |->
                        FloatSubtract(AvailableHours(capacity), res.available_hours),
                    overflow_count |-> over.overflow_count,
                    propagated |-> Len(over.items)]
    IN  [backlog_items |-> final,
         item_counter |-> counter + Len(new_items),
         removed |-> SeqRange(decay.decayed) \cup SeqRange(res.resolved_items)
                         \cup SeqRange(over.dropped),
         snapshot |-> CreateSnapshot(final, date, metrics),
         day |-> [processed |-> TRUE, date |-> date,
                  start_items |-> items, aged |-> aged,
                  decayed |-> decay.decayed, new_items |-> new_items,
                  checked |-> checked, visits |-> res.visits,
                  resolved_items |-> res.resolved_items,
                  available_hours |-> res.available_hours,
                  remaining |-> res.remaining_items,
                  after_overflow |-> over.items,
                  dropped |-> over.dropped, metrics |-> metrics]]

\* the random draws of a day: random.random() for every item that goes into
\* the decay stage, random.choices and random.randint for every new item
DecayDraws(req, items) ==
    [1..Len(items) -> IF req.profile.decay_rate <= 0 THEN {0} ELSE RandomDraws]
NewItemDraws(req, date) == [1..Len(NewPriorities(req, date)) -> ItemDraws]

\* one iteration of the while loop on a date with a capacity entry
ProcessDay ==
    /\ pc = "loop"
    /\ current_date <= request.end_date
    /\ current_date \in DOMAIN request.daily_capacities
    /\ \E decay_draws \in DecayDraws(request, backlog_items),
          item_draws \in NewItemDraws(request, current_date) :
           \E result \in {DayResult(request, backlog_items, item_counter, current_date,
                                    decay_draws, item_draws)} :
               /\ backlog_items' = result.backlog_items
               /\ item_counter' = result.item_counter
               /\ removed_items' = removed_items \cup result.removed
               /\ daily_snapshots' = Append(daily_snapshots, result.snapshot)
               /\ day' = result.day
    /\ current_date' = current_date + 1
    /\ UNCHANGED router_vars
    /\ UNCHANGED <<request, pc>>

\* the summary and the response, lines 676-714: max() of no snapshots raises
Finish ==
    /\ pc = "loop"
    /\ current_date > request.end_date
    /\ pc' = IF daily_snapshots = <<>> THEN "raised" ELSE "done"
    /\ UNCHANGED router_vars
    /\ UNCHANGED <<request, backlog_items, item_counter, current_date,
                   daily_snapshots, removed_items, day>>

Next == Begin \/ SkipDay \/ ProcessDay \/ Finish

Spec == Init /\ [][Next]_vars

\* the engine handed a single-day request
DayInit ==
    /\ request \in DayRequests
    /\ pc = "new"
    /\ backlog_items = <<>>
    /\ item_counter = 0
    /\ current_date = None
    /\ daily_snapshots = <<>>
    /\ removed_items = {}
    /\ day = NoDay
    /\ NoRouter

DaySpec == DayInit /\ [][Next]_vars

\* the engine handed a request over the longer window
WindowInit ==
    /\ request \in WindowRequests
    /\ pc = "new"
    /\ backlog_items = <<>>
    /\ item_counter = 0
    /\ current_date = None
    /\ daily_snapshots = <<>>
    /\ removed_items = {}
    /\ day = NoDay
    /\ NoRouter

WindowSpec == WindowInit /\ [][Next]_vars

\* the engine handed a request with odd efforts
HoursInit ==
    /\ request \in HoursRequests
    /\ pc = "new"
    /\ backlog_items = <<>>
    /\ item_counter = 0
    /\ current_date = None
    /\ daily_snapshots = <<>>
    /\ removed_items = {}
    /\ day = NoDay
    /\ NoRouter

HoursSpec == HoursInit /\ [][Next]_vars

-----------------------------------------------------------------------------
(* Claims about one processed day *)

\* the capacity entry of the last iteration's date
DayCapacity == request.daily_capacities[day.date]

Visit(i) == day.visits[i]
Visits == 1..Len(day.visits)

\* the real numbers the claims speak of, exact, in units of 1/6000 hour:
\* an effort of whole minutes, and hours times a modifier in percent
ExactEffort(minutes) == minutes * 100
ExactCapacity(capacity) ==
    capacity.backlog_capacity_hours * 60 * capacity.productivity_modifier
ResolvedVisits == {i \in Visits : Visit(i).outcome = "resolved"}

\* C1: with max_backlog_capacity = N (N >= 0) and the reject strategy, the live
\* backlog holds at most N items after the overflow stage of every processed day.
C1_RejectKeepsAtMostN ==
    (/\ day.processed
     /\ request.profile.overflow_strategy = "reject"
     /\ request.profile.max_backlog_capacity # None)
    => Len(backlog_items) <= request.profile.max_backlog_capacity

\* a processed day on which the reject strategy dropped items and left N >= 1
C1_Witness ==
    /\ day.processed
    /\ request.profile.overflow_strategy = "reject"
    /\ request.profile.max_backlog_capacity = MaxCapacity
    /\ day.dropped # <<>>
    /\ Len(backlog_items) = MaxCapacity

\* C2: the resolution pass visits items in descending priority rank: when a
\* higher-priority and a lower-priority item each fit the available hours alone
\* but not together, and no per-day caps are set, the higher-priority item is
\* the one resolved.
C2_HighestPriorityFirst ==
    day.processed =>
        /\ \A i, j \in Visits :
               i < j => PriorityOrder(Visit(i).priority) >= PriorityOrder(Visit(j).priority)
        /\ \A h, l \in Visits :
               (/\ Len(day.visits) = 2
                /\ DayCapacity.max_items_per_day = None
                /\ DayCapacity.max_complex_items_per_day = None
                /\ PriorityOrder(Visit(h).priority) > PriorityOrder(Visit(l).priority)
                /\ ExactEffort(Visit(h).estimated_effort_minutes)
                       <= ExactCapacity(DayCapacity)
                /\ ExactEffort(Visit(l).estimated_effort_minutes)
                       <= ExactCapacity(DayCapacity)
                /\ ExactEffort(Visit(h).estimated_effort_minutes)
                       + ExactEffort(Visit(l).estimated_effort_minutes)
                       > ExactCapacity(DayCapacity))
               => Visit(h).outcome = "resolved" /\ Visit(l).outcome # "resolved"

\* C3 as claimed: among items of equal priority, the resolution pass visits the
\* item with the fewest days_in_backlog first.
C3_FewestDaysFirst ==
    day.processed =>
        \A i, j \in Visits :
            (i < j /\ Visit(i).priority = Visit(j).priority)
            => Visit(i).days_in_backlog <= Visit(j).days_in_backlog

\* C3 amended: among items of equal priority, the resolution pass visits the
\* item with the most days_in_backlog first (oldest first).
C3_MostDaysFirst ==
    day.processed =>
        \A i, j \in Visits :
            (i < j /\ Visit(i).priority = Visit(j).priority)
            => Visit(i).days_in_backlog >= Visit(j).days_in_backlog

\* two items of equal priority and different age: the older one took the hours
C3_Witness ==
    /\ day.processed
    /\ \E i, j \in Visits :
          /\ i < j
          /\ Visit(i).priority = Visit(j).priority
          /\ Visit(i).days_in_backlog > Visit(j).days_in_backlog
          /\ Visit(i).outcome = "resolved"
          /\ Visit(j).outcome = "no_hours"

\* C4 as claimed: once an item of the pass is left because its effort exceeds
\* the remaining hours, no later item of the pass is resolved that day.
C4_NoBackfill ==
    day.processed =>
        \A i, j \in Visits :
            (i < j /\ Visit(i).outcome = "no_hours") => Visit(j).outcome # "resolved"

\* C4 amended: once an item of the pass is left because its effort exceeds the
\* remaining hours, a later item of the pass is resolved that day only if its
\* effort is strictly smaller than that item's.
C4_BackfillOnlySmaller ==
    day.processed =>
        \A i, j \in Visits :
            (i < j /\ Visit(i).outcome = "no_hours" /\ Visit(j).outcome = "resolved")
            => Visit(j).estimated_effort_minutes < Visit(i).estimated_effort_minutes

\* an item left for lack of hours, and a later, smaller item resolved
C4_Witness ==
    /\ day.processed
    /\ \E i, j \in Visits :
          i < j /\ Visit(i).outcome = "no_hours" /\ Visit(j).outcome = "resolved"

\* C5: a day with max_items_per_day = k (k >= 0, 0 included) resolves at most k
\* items, and one with max_complex_items_per_day = c at most c complex items.
C5_CapsBoundResolved ==
    day.processed =>
        /\ DayCapacity.max_items_per_day # None
           => Cardinality(ResolvedVisits) <= DayCapacity.max_items_per_day
        /\ DayCapacity.max_complex_items_per_day # None
           => Cardinality({i \in ResolvedVisits : Visit(i).complexity = "complex"})
                  <= DayCapacity.max_complex_items_per_day

\* C6: the summed effort of the items resolved on a day never exceeds
\* backlog_capacity_hours * productivity_modifier, and the remaining available
\* hours never go negative.
C6_EffortWithinCapacity ==
    day.processed =>
        /\ SeqSum([i \in 1..Len(day.resolved_items) |->
                      ExactEffort(day.resolved_items[i].estimated_effort_minutes)])
               <= ExactCapacity(DayCapacity)
        /\ \A i \in Visits : ~Visit(i).available_hours.neg
        /\ ~day.available_hours.neg

\* a day whose hours ran out: items were resolved, one was left for lack of
\* hours, with a productivity modifier below 1
C6_Witness ==
    /\ day.processed
    /\ DayCapacity.productivity_modifier < 100
    /\ day.resolved_items # <<>>
    /\ \E i \in Visits : Visit(i).outcome = "no_hours"

-----------------------------------------------------------------------------
(* Claims about a run *)

\* every item object that exists: the live list and the dropped items
AllItems == SeqRange(backlog_items) \cup removed_items

\* the window's date current_date is about to be taken by the loop
DayStep == pc = "loop" /\ current_date <= request.end_date /\ current_date' # current_date

\* no item's priority rank is lower in list b than in list a
RankKept(a, b) ==
    \A x \in SeqRange(a) : \A y \in SeqRange(b) :
        x.oid = y.oid => PriorityOrder(y.priority) >= PriorityOrder(x.priority)

\* C7: the priority rank of an item never decreases between two points of a run
\* at which it exists, through aging, escalation and every other stage.
C7_PriorityNeverDecreases ==
    [][/\ \A x \in AllItems : \A y \in AllItems' :
              x.oid = y.oid => PriorityOrder(y.priority) >= PriorityOrder(x.priority)
       /\ day'.processed =>
              /\ RankKept(day'.start_items, day'.aged)
              /\ RankKept(day'.aged, day'.checked)
              /\ RankKept(day'.checked, day'.remaining)
              /\ RankKept(day'.remaining, backlog_items')]_vars

\* an item that aging made critical was escalated and is still critical
C7_Witness ==
    \E x \in SeqRange(backlog_items) :
        /\ x.status = "escalated"
        /\ x.aging_date # None
        /\ x.original_priority # "critical"
        /\ x.priority = "critical"

\* C8 as claimed: on every calendar day of the window, each item that is in the
\* live list at the start of the day has its days_in_backlog raised by exactly
\* 1; days_in_backlog never decreases.
C8_DaysGrowEveryCalendarDay ==
    [][/\ DayStep =>
              \A x \in SeqRange(backlog_items) : \A y \in AllItems' :
                  x.oid = y.oid => y.days_in_backlog = x.days_in_backlog + 1
       /\ \A x \in AllItems : \A y \in AllItems' :
              x.oid = y.oid => y.days_in_backlog >= x.days_in_backlog]_vars

\* C8 amended: on every day of the window that has a capacity entry, each item
\* that is in the live list at the start of the day has its days_in_backlog
\* raised by exactly 1; on a day without capacity entry it is unchanged;
\* days_in_backlog never decreases.
C8_DaysGrowEveryProcessedDay ==
    [][/\ DayStep =>
              \A x \in SeqRange(backlog_items) : \A y \in AllItems' :
                  x.oid = y.oid =>
                      y.days_in_backlog =
                          IF current_date \in DOMAIN request.daily_capacities
                          THEN x.days_in_backlog + 1 ELSE x.days_in_backlog
       /\ \A x \in AllItems : \A y \in AllItems' :
              x.oid = y.oid => y.days_in_backlog >= x.days_in_backlog]_vars

\* a processed day that follows a skipped one: the items that stay are one day
\* older than at the start of the day, not two
C8_Witness ==
    /\ day.processed
    /\ Len(daily_snapshots) < day.date
    /\ \E x \in SeqRange(request.initial_backlog_items) : \E y \in SeqRange(backlog_items) :
          x.oid = y.oid /\ y.days_in_backlog = x.days_in_backlog + 1

\* C9: sla_breached is monotonic: once true for an item it is true on every
\* later day of the run, also after a defer overflow moved its due_date into
\* the future.
C9_SlaBreachedMonotonic ==
    [][\A x \in AllItems : \A y \in AllItems' :
           (x.oid = y.oid /\ x.sla_breached) => y.sla_breached]_vars

\* a breached item that was deferred went through a later day's SLA check with
\* its due date in the future, and is still flagged
C9_Witness ==
    /\ day.processed
    /\ \E x \in SeqRange(day.start_items) : \E y \in SeqRange(day.checked) :
          /\ x.oid = y.oid
          /\ x.sla_breached /\ x.status = "deferred" /\ x.due_date > day.date
          /\ y.sla_breached

\* C10: from pending initial items, at the end of every processed day no live
\* item is completed, rejected or outsourced; every item that left the live
\* list has one of these statuses; an item that left never comes back.
C10_TerminalItemsLeaveForGood ==
    [][/\ day'.processed =>
              \A x \in SeqRange(backlog_items') : x.status \notin TerminalStatuses
       /\ \A x \in SeqRange(backlog_items) :
              x.oid \notin Oids(backlog_items') =>
                  \E r \in removed_items' : r.oid = x.oid /\ r.status \in TerminalStatuses
       /\ \A r \in removed_items' : r.status \in TerminalStatuses
       /\ \A r \in removed_items : r \in removed_items' /\ r.oid \notin Oids(backlog_items')]_vars

\* items have left by decay, by resolution and by outsourcing, and others stay
C10_Witness ==
    /\ day.processed
    /\ backlog_items # <<>>
    /\ \E r \in removed_items : r.status = "completed" /\ r.completed_date = WallClockToday
    /\ \E r \in removed_items : r.status = "completed" /\ r.completed_date \in StartDate..MaxDay
    /\ \E r \in removed_items : r.status = "outsourced"

-----------------------------------------------------------------------------
(* Claims about the overflow strategies *)

\* C11: with the outsource strategy and max_backlog_capacity = N, when the list
\* left by resolution holds M > N pending items, exactly M - N of them end the
\* day outsourced and out of the live list, none of them has a higher priority
\* rank than an item that stays, and the N that stay are still pending.
C11_OutsourceLowestOverflow ==
    (/\ day.processed
     /\ request.profile.overflow_strategy = "outsource"
     /\ request.profile.max_backlog_capacity # None
     /\ Len(day.remaining) > request.profile.max_backlog_capacity
     /\ \A x \in SeqRange(day.remaining) : x.status = "pending")
    => LET N == request.profile.max_backlog_capacity
           M == Len(day.remaining)
           gone == {x \in removed_items :
                       x.oid \in Oids(day.remaining) /\ x.status = "outsourced"}
       IN  /\ Cardinality(gone) = M - N
           /\ Cardinality({x.oid : x \in gone}) = M - N
           /\ Len(day.dropped) = M - N
           /\ \A x \in SeqRange(day.remaining) :
                  x.oid \notin Oids(backlog_items) => \E g \in gone : g.oid = x.oid
           /\ \A g \in gone :
                  /\ g.oid \notin Oids(backlog_items)
                  /\ \A k \in SeqRange(backlog_items) :
                         PriorityOrder(g.priority) <= PriorityOrder(k.priority)
           /\ Len(backlog_items) = N
           /\ \A k \in SeqRange(backlog_items) :
                  k.status = "pending" /\ k.oid \in Oids(day.remaining)

\* two of three items were outsourced, one of them of a lower rank than the item
\* that stays
C11_Witness ==
    /\ day.processed
    /\ request.profile.overflow_strategy = "outsource"
    /\ request.profile.max_backlog_capacity = MaxCapacity
    /\ Len(day.remaining) = MaxCapacity + 2
    /\ Len(backlog_items) = MaxCapacity
    /\ \E g \in SeqRange(day.dropped) : \E k \in SeqRange(backlog_items) :
          g.status = "outsourced" /\ PriorityOrder(g.priority) < PriorityOrder(k.priority)

-----------------------------------------------------------------------------
(* Claims about runs over the longer window *)

\* the dates StartDate..d all have a capacity entry of zero hours
ZeroCapacityUpTo(d) ==
    \A e \in StartDate..d :
        /\ e \in DOMAIN request.daily_capacities
        /\ request.daily_capacities[e].backlog_capacity_hours = 0

\* C12: with aging enabled, the aging stage of a processed day raises a
\* non-critical item by exactly one level when the days since its aging_date (or
\* its created_date if it never aged) are at least aging_threshold_days, and
\* leaves its priority unchanged otherwise, however many thresholds have
\* elapsed; with a threshold of 1 and zero capacity an item created low on day 1
\* is low on day 1, medium on day 2 and high on day 3.
C12_AgingOneLevelPerDay ==
    day.processed =>
        /\ \A i \in 1..Len(day.start_items) :
               LET x == day.start_items[i]
                   y == day.aged[i]
                   since == IF x.aging_date # None THEN x.aging_date ELSE x.created_date
                   due == /\ request.enable_priority_aging
                          /\ request.profile.aging_enabled
                          /\ x.priority # "critical"
                          /\ day.date - since >= request.profile.aging_threshold_days
               IN  /\ y.oid = x.oid
                   /\ PriorityOrder(y.priority)
                          = PriorityOrder(x.priority) + (IF due THEN 1 ELSE 0)
        /\ (/\ request.enable_priority_aging
            /\ request.profile.aging_enabled
            /\ request.profile.aging_threshold_days = 1
            /\ ZeroCapacityUpTo(day.date))
           => \A y \in SeqRange(backlog_items) :
                  (y.created_date = StartDate /\ y.original_priority = "low")
                  => PriorityOrder(y.priority) = 1 + (day.date - StartDate)

\* day 3 of the example: the low item of day 1 is high, and an item that was
\* six thresholds old on day 1 went up one level a day as well
C12_Witness ==
    /\ day.processed
    /\ day.date = StartDate + 2
    /\ request.profile.aging_enabled
    /\ request.profile.aging_threshold_days = 1
    /\ ZeroCapacityUpTo(day.date)
    /\ \E y \in SeqRange(backlog_items) :
          y.created_date = StartDate /\ y.original_priority = "low" /\ y.priority = "high"
    /\ \E i \in 1..Len(daily_snapshots) :
          /\ daily_snapshots[i].snapshot_date = StartDate
          /\ daily_snapshots[i].items_aged_up = 1

\* the loop takes the date current_date and the date has no demand entry, or
\* one that asks for no item
NoNewDemand ==
    \/ current_date \notin DOMAIN request.daily_demands
    \/ DemandPriorities(request.daily_demands[current_date].new_items_by_priority) = <<>>

\* C13: if on a processed day the summed effort of all live items is at most
\* backlog_capacity_hours * productivity_modifier and no per-day caps are set,
\* every live item is resolved that day (completed, completed_date = that day),
\* that day's snapshot has total_items = 0, and so has the snapshot of every
\* later day as long as no new demand arrives.
C13_EnoughCapacityEmptiesBacklog ==
    [][/\ (/\ day'.processed
           /\ day' # day
           /\ request.daily_capacities[day'.date].max_items_per_day = None
           /\ request.daily_capacities[day'.date].max_complex_items_per_day = None
           /\ SeqSum([i \in 1..Len(day'.checked) |->
                         ExactEffort(day'.checked[i].estimated_effort_minutes)])
                  <= ExactCapacity(request.daily_capacities[day'.date]))
          => /\ backlog_items' = <<>>
             /\ Oids(day'.resolved_items) = Oids(day'.checked)
             /\ Len(day'.resolved_items) = Len(day'.checked)
             /\ \A x \in SeqRange(day'.resolved_items) :
                    /\ x.status = "completed"
                    /\ x.completed_date = day'.date
                    /\ x \in removed_items'
             /\ daily_snapshots'[Len(daily_snapshots')].snapshot_date = day'.date
             /\ daily_snapshots'[Len(daily_snapshots')].total_items = 0
       /\ (DayStep /\ backlog_items = <<>> /\ NoNewDemand)
          => /\ backlog_items' = <<>>
             /\ \A i \in (Len(daily_snapshots) + 1)..Len(daily_snapshots') :
                    daily_snapshots'[i].total_items = 0]_vars

-----------------------------------------------------------------------------
(* Claims about dates without capacity entry *)

\* the dates of the window that have a capacity entry
CapacityDates == {d \in request.start_date..request.end_date :
                     d \in DOMAIN request.daily_capacities}

\* C14: simulate_propagation returns a response without raising for every
\* request in which some or all dates of the window have no capacity entry.
C14_MissingCapacityNeverRaises ==
    (/\ pc \notin {"new", "loop"}
     /\ CapacityDates # request.start_date..request.end_date)
    => pc = "done"

\* the dates of the snapshots taken so far, in the order of the list
SnapshotDates == [i \in 1..Len(daily_snapshots) |-> daily_snapshots[i].snapshot_date]

\* C15: a date of the window without capacity entry produces no snapshot and
\* leaves the live list and every field of every item unchanged, and a demand
\* entry for that date is not admitted; daily_snapshots holds exactly one
\* snapshot per date that has a capacity entry, in ascending date order.
C15_SkippedDateChangesNothing ==
    [][/\ (DayStep /\ current_date \notin DOMAIN request.daily_capacities)
          => /\ daily_snapshots' = daily_snapshots
             /\ backlog_items' = backlog_items
             /\ removed_items' = removed_items
             /\ item_counter' = item_counter
             /\ current_date' = current_date + 1
       /\ pc' # "new"
          => /\ \A i, j \in 1..Len(daily_snapshots') :
                    i < j => SnapshotDates'[i] < SnapshotDates'[j]
             /\ SeqRange(SnapshotDates') = {d \in CapacityDates' : d < current_date'}]_vars

\* a date with a demand entry was skipped while items were waiting, after an
\* earlier date had been processed
C15_Witness ==
    /\ pc = "loop"
    /\ ~day.processed
    /\ day.date > StartDate
    /\ day.date \in DOMAIN request.daily_demands
    /\ Len(daily_snapshots) = 1
    /\ backlog_items # <<>>
    /\ backlog_items = day.start_items

-----------------------------------------------------------------------------
(* Claims about the request's own items *)

\* The live list starts as a shallow copy of request.initial_backlog_items
\* (line 585): the list is new, the item objects are the caller's.  The variable
\* request holds the request as it was passed in; the present state of its i-th
\* item object is the item of that identity among all item objects.
InitialItemNow(i) ==
    CHOOSE x \in AllItems : x.oid = request.initial_backlog_items[i].oid

\* C16: simulate_propagation does not modify the items of
\* request.initial_backlog_items: their priority, status, days_in_backlog,
\* sla_breached, due_date and aging_date are the same after the call as before.
C16_RequestItemsUntouched ==
    pc = "done" =>
        \A i \in 1..Len(request.initial_backlog_items) :
            LET before == request.initial_backlog_items[i]
                after == InitialItemNow(i)
            IN  /\ after.priority = before.priority
                /\ after.status = before.status
                /\ after.days_in_backlog = before.days_in_backlog
                /\ after.sla_breached = before.sla_breached
                /\ after.due_date = before.due_date
                /\ after.aging_date = before.aging_date

-----------------------------------------------------------------------------
(* Claims about item ids *)

\* C17: from initial items with pairwise distinct ids, all items of the live
\* list have pairwise distinct ids in every state of a run, and the items
\* generated on a day carry strictly increasing counters.
C17_IdsUnique ==
    (\A i, j \in 1..Len(request.initial_backlog_items) :
         i # j => request.initial_backlog_items[i].id # request.initial_backlog_items[j].id)
    => /\ \A i, j \in 1..Len(backlog_items) :
              i # j => backlog_items[i].id # backlog_items[j].id
       /\ \A i, j \in 1..Len(day.new_items) :
              i < j => day.new_items[i].id < day.new_items[j].id
       /\ \A i \in 1..Len(day.new_items) : day.new_items[i].id <= item_counter

-----------------------------------------------------------------------------
(* Claims about what the overflow strategies promise *)

\* C18: under the reject strategy only new work is rejected: every item
\* rejected on a day was admitted on that day, and every item that was in the
\* backlog before the day's admission is kept in the live list by the overflow
\* stage.
C18_RejectOnlyNewWork ==
    (day.processed /\ request.profile.overflow_strategy = "reject")
    => /\ \A x \in SeqRange(day.dropped) : x.oid \in Oids(day.new_items)
       /\ \A x \in SeqRange(day.remaining) :
              x.oid \notin Oids(day.new_items) => x.oid \in Oids(backlog_items)

\* C19: under the defer strategy the SLA of a deferred item is extended: the
\* due_date of every item that the overflow stage gives status deferred is not
\* earlier after the stage than before it.
C19_DeferExtendsDueDate ==
    (day.processed /\ request.profile.overflow_strategy = "defer")
    => \A x \in SeqRange(day.remaining) : \A y \in SeqRange(backlog_items) :
           (x.oid = y.oid /\ y.status = "deferred" /\ x.oid \in Marked(day.remaining,
                                                        day.metrics.overflow_count))
           => (x.due_date # None => (y.due_date # None /\ y.due_date >= x.due_date))

-----------------------------------------------------------------------------
(* Claims about the snapshots *)

\* the snapshot that the step has appended
NewSnapshot == daily_snapshots'[Len(daily_snapshots')]

\* C20: every snapshot taken when no live item carries a due date has
\* sla_compliance_rate = 100; with no initial items and no new items on any
\* day, every daily snapshot has total_items = 0 and sla_compliance_rate = 100.
C20_NoDueDatesFullCompliance ==
    [][Len(daily_snapshots') = Len(daily_snapshots) + 1
       => /\ (\A x \in SeqRange(backlog_items') : x.due_date = None)
             => NewSnapshot.sla_compliance_rate = <<100, 1>>
          /\ (/\ request.initial_backlog_items = <<>>
              /\ \A i \in 1..Len(daily_snapshots') : daily_snapshots'[i].new_items = 0)
             => /\ NewSnapshot.total_items = 0
                /\ NewSnapshot.sla_compliance_rate = <<100, 1>>]_vars

\* a snapshot of two waiting items without due date, one of them older than its
\* day
C20_Witness ==
    /\ day.processed
    /\ Len(backlog_items) = 2
    /\ \A x \in SeqRange(backlog_items) : x.due_date = None
    /\ \E x \in SeqRange(backlog_items) : x.days_in_backlog > 0
    /\ daily_snapshots[Len(daily_snapshots)].total_items = 2
    /\ daily_snapshots[Len(daily_snapshots)].sla_compliance_rate = <<100, 1>>

-----------------------------------------------------------------------------
(* The call router (src/PythonProjects/CallRoute.py).                      *)
(* Times are whole minutes.  Agent and call ids are numbers, compared as   *)
(* the uuid strings are.  A priority or an effective priority is kept in   *)
(* tenths, which orders the values exactly as the floats do for the aging  *)
(* rates of the model.                                                     *)

\* ids of the calls that can wait at the same time
MaxCalls == 2
\* the clock stops at MaxNow, which stands for every later time: by then the
\* aging reduction has reached its cap and every call has waited out its
\* max_wait_seconds
MaxNow == 1
\* ACW timers of one agent that can be pending at the same time
MaxTimers == 1
\* largest value of _active_assignments_partial
MaxPartial == 1

AgentStates == {"OFFLINE", "AVAILABLE", "ONCALL", "ACW", "PAUSED"}

SecondsPerMinute == 60

\* priority_aging_rate_per_min of the router, in tenths: CallRouter(1.0)
AgingRate == 10
\* the cap of the reduction, 0.9, in tenths
MaxReduction == 9
\* the clamp -100.0, in tenths
LowestEffective == -1000
\* max_skill_deficit
MaxSkillDeficit == 1

\* max_partial_fraction - 1e-9 for the default max_partial_fraction = 0.25:
\* the float 0.25 - 1e-9
PartialLimit == Float(FALSE, <<0, 8191, 32766, 30351, 20576>>)

\* dict.get(key, default)
Get(f, k, default) == IF k \in DOMAIN f THEN f[k] ELSE default

\* dict.pop(key, None), and d[key] = value
Pop(f, k) == [x \in DOMAIN f \ {k} |-> f[x]]
Put(f, k, v) == [x \in DOMAIN f \cup {k} |-> IF x = k THEN v ELSE f[x]]

Smaller(a, b) == IF a < b THEN a ELSE b
Larger(a, b) == IF a > b THEN a ELSE b

\* the elements of the set S as sorted() by key[x] returns them (keys differ)
RECURSIVE OrderBy(_, _)
OrderBy(S, key) ==
    IF S = {} THEN <<>>
    ELSE LET first == CHOOSE x \in S : \A y \in S \ {x} : KeyLess(key[x], key[y])
         IN  <<first>> \o OrderBy(S \ {first}, key)

\* Agent(...), the other fields at their defaults
Agent(rank, skills, max_concurrent) ==
    [seniority_rank |-> rank, skills |-> skills, max_concurrent |-> max_concurrent,
     state |-> "AVAILABLE", current_calls |-> 0, last_assigned_ts |-> 0]

\* Call(...), max_wait_seconds at its default; last_agent_id is
\* metadata.get("last_agent_id")
Call(priority, arrival_ts, required, preferred, last_agent_id) ==
    [priority |-> priority, arrival_ts |-> arrival_ts,
     required_skills |-> required, preferred_skills |-> preferred,
     max_wait_seconds |-> 60, last_agent_id |-> last_agent_id]

\* a plausible slip: the agent's state is not looked at
IsAvailableAnyState(a) == a.current_calls < a.max_concurrent

\* Agent.is_available
IsAvailable(a) == a.state = "AVAILABLE" /\ a.current_calls < a.max_concurrent

\* Agent.can_handle
CanHandle(a, required) ==
    \A skill \in DOMAIN required : ~(Get(a.skills, skill, -1) < required[skill])

\* sum over the skills of S of the agent's level above the minimum
RECURSIVE Surplus(_, _, _)
Surplus(skills, levels, S) ==
    IF S = {} THEN 0
    ELSE LET skill == CHOOSE x \in S : TRUE
         IN  Get(skills, skill, 0) - levels[skill] + Surplus(skills, levels, S \ {skill})

\* Agent.proficiency_score
ProficiencyScore(a, required, preferred) ==
    Surplus(a.skills, required, DOMAIN required)
    + Surplus(a.skills, preferred,
              {skill \in DOMAIN preferred : Get(a.skills, skill, 0) >= preferred[skill]})

\* ScoringStrategy.key
ScoringKey(id, call) ==
    <<-ProficiencyScore(agents[id], call.required_skills, call.preferred_skills),
      agents[id].current_calls, agents[id].last_assigned_ts, id>>

\* _effective_priority, in tenths
EffectivePriority(call, now) ==
    LET age_minutes == Larger(0, now - call.arrival_ts)
        reduction == Smaller(MaxReduction, AgingRate * age_minutes)
    IN  Larger(LowestEffective, 10 * call.priority - reduction)

\* _eligible_agents
EligibleAgents(call) ==
    {id \in DOMAIN agents :
        IsAvailable(agents[id]) /\ CanHandle(agents[id], call.required_skills)}

\* _try_sticky
TrySticky(call) ==
    LET sticky_id == call.last_agent_id
    IN  IF /\ sticky_id # None
           /\ sticky_id \in DOMAIN agents
           /\ IsAvailable(agents[sticky_id])
           /\ CanHandle(agents[sticky_id], call.required_skills)
        THEN sticky_id ELSE None

\* _pick_agent: the agent, whether a round-robin counter was advanced, and the
\* key of that counter
PickAgent(call) ==
    LET sticky == TrySticky(call)
        candidates == EligibleAgents(call)
    IN  IF sticky # None THEN [agent |-> sticky, counted |-> FALSE, key |-> <<>>]
        ELSE IF candidates = {} THEN [agent |-> None, counted |-> FALSE, key |-> <<>>]
        ELSE LET best_rank == CHOOSE r \in {agents[id].seniority_rank : id \in candidates} :
                                  \A id \in candidates : r <= agents[id].seniority_rank
                 tier == {id \in candidates : agents[id].seniority_rank = best_rank}
                 same_rank == OrderBy(tier, [id \in tier |-> ScoringKey(id, call)])
                 key == <<best_rank, DOMAIN call.required_skills>>
                 idx == Get(round_robin_counters, key, 0) % Len(same_rank)
             IN  [agent |-> same_rank[idx + 1], counted |-> TRUE, key |-> key]

\* _partial_allowed
PartialAllowed ==
    IF active_assignments_total = 0 THEN TRUE
    ELSE LET frac == IF active_assignments_partial = 0 THEN Float(FALSE, ZeroMag)
                     ELSE FloatDivide(active_assignments_partial,
                                      active_assignments_total)
         IN  FloatLess(frac, PartialLimit)

\* _find_best_partial_match
FindBestPartialMatch(call) ==
    IF ~PartialAllowed THEN None
    ELSE LET req == call.required_skills
             diff(id, s) == Get(agents[id].skills, s, 0) - req[s]
             matched(id) == {s \in DOMAIN req : diff(id, s) >= 0}
             passes(id) == \A s \in DOMAIN req :
                               diff(id, s) >= 0 \/ -diff(id, s) <= MaxSkillDeficit
             candidates == {id \in DOMAIN agents :
                               /\ IsAvailable(agents[id])
                               /\ passes(id)
                               /\ matched(id) # {}}
             key == [id \in candidates |->
                        <<-Cardinality(matched(id)),
                          agents[id].seniority_rank,
                          -ProficiencyScore(agents[id],
                                            [s \in matched(id) |-> req[s]],
                                            call.preferred_skills),
                          agents[id].current_calls,
                          agents[id].last_assigned_ts,
                          id>>]
         IN  IF candidates = {} THEN None ELSE OrderBy(candidates, key)[1]

\* the while loop of try_route_once over the popped entries order[i..]:
\* the assignment it breaks with, the buffer of the calls it passed over, and
\* the entries left in the heap
RECURSIVE RouteLoop(_, _, _, _)
RouteLoop(order, i, buffer, now) ==
    IF i > Len(order)
    THEN [assigned |-> FALSE, buffer |-> buffer, left |-> {}]
    ELSE LET call_id == order[i][3]
         IN  IF call_id \notin DOMAIN call_store
             THEN RouteLoop(order, i + 1, buffer, now)
             ELSE LET call == call_store[call_id]
                      eff == <<EffectivePriority(call, now), call.arrival_ts>>
                      pick == PickAgent(call)
                      waited == now - Get(waiting_since, call_id, call.arrival_ts)
                      fallback == pick.agent = None
                                  /\ waited * SecondsPerMinute >= call.max_wait_seconds
                      agent == IF fallback THEN FindBestPartialMatch(call)
                               ELSE pick.agent
                  IN  IF agent # None
                      THEN [assigned |-> TRUE, call_id |-> call_id, agent_id |-> agent,
                            partial |-> fallback, pick |-> pick,
                            buffer |-> buffer,
                            left |-> {order[j] : j \in (i + 1)..Len(order)}]
                      ELSE RouteLoop(order, i + 1,
                                     buffer \cup {<<eff[1], eff[2], call_id>>}, now)

\* the calls a caller may enqueue: priority 0 or 1, in need of level 2 in both
\* skills, arrived now
Skills == {"billing", "tech_support"}
Hard == [s \in Skills |-> 2]
NewCalls(now) ==
    {Call(0, now, Hard, <<>>, None),
     Call(1, now, Hard, <<>>, None)}

CallIds == 1..MaxCalls

\* two agents: one takes two calls at a time and has both skills at level 2,
\* the other is one level short in tech_support
Alice == Agent(1, [s \in Skills |-> 2], 2)
Bob == Agent(1, [s \in Skills |-> IF s = "billing" THEN 2 ELSE 1], 1)

\* the engine is not running
NoEngine ==
    /\ request = <<>>
    /\ pc = "none"
    /\ backlog_items = <<>>
    /\ item_counter = 0
    /\ current_date = None
    /\ daily_snapshots = <<>>
    /\ removed_items = {}
    /\ day = NoDay

\* CallRouter() after add_agent for each agent of the team
RouterOf(team) ==
    /\ agents = team
    /\ call_store = <<>>
    /\ global_queue = {}
    /\ waiting_since = <<>>
    /\ round_robin_counters = <<>>
    /\ active_assignments_total = 0
    /\ active_assignments_partial = 0
    /\ timers = [id \in DOMAIN team |-> 0]
    /\ clock = 0

\* the teams of the model: each agent alone
Teams == {<<Alice>>, <<Bob>>}

RouterInit == NoEngine /\ \E team \in Teams : RouterOf(team)

\* enqueue_call of a new Call, whose id is a fresh uuid
EnqueueCall ==
    \E id \in CallIds \ DOMAIN call_store, call \in NewCalls(clock) :
        /\ \A other \in CallIds \ DOMAIN call_store : id <= other
        /\ call_store' = Put(call_store, id, call)
        /\ global_queue' = global_queue \cup {<<10 * call.priority, call.arrival_ts, id>>}
        /\ waiting_since' = Put(waiting_since, id, call.arrival_ts)
        /\ UNCHANGED <<agents, round_robin_counters, active_assignments_total,
                       active_assignments_partial, timers, clock>>
        /\ UNCHANGED engine_vars

\* _assign_locked
AssignLocked(call_id, agent_id, partial, now) ==
    /\ agents' = [agents EXCEPT ![agent_id] =
                     [@ EXCEPT !.current_calls = @ + 1,
                               !.last_assigned_ts = now,
                               !.state = "ONCALL"]]
    /\ waiting_since' = Pop(waiting_since, call_id)
    /\ call_store' = Pop(call_store, call_id)
    /\ active_assignments_total' = active_assignments_total + 1
    /\ active_assignments_partial' =
           IF partial THEN active_assignments_partial + 1
           ELSE active_assignments_partial

\* try_route_once with a queue that is not empty, now = time.time()
TryRouteOnce ==
    /\ global_queue # {}
    /\ LET now == clock
           order == OrderBy(global_queue, [e \in global_queue |-> e])
           loop == RouteLoop(order, 1, {}, now)
       IN  /\ global_queue' = loop.left \cup loop.buffer
           /\ IF ~loop.assigned
              THEN UNCHANGED <<agents, waiting_since, call_store, round_robin_counters,
                               active_assignments_total, active_assignments_partial>>
              ELSE /\ loop.partial => active_assignments_partial < MaxPartial
                   /\ AssignLocked(loop.call_id, loop.agent_id, loop.partial, now)
                   /\ round_robin_counters' =
                          IF ~loop.pick.counted THEN round_robin_counters
                          ELSE Put(round_robin_counters, loop.pick.key,
                                   (Get(round_robin_counters, loop.pick.key, 0) + 1)
                                       % Cardinality(DOMAIN agents))
    /\ UNCHANGED <<timers, clock>>
    /\ UNCHANGED engine_vars

\* complete_call: an ONCALL agent goes to ACW and a timer is started
CompleteCall(agent_id) ==
    LET a == agents[agent_id]
        left == Larger(0, a.current_calls - 1)
    IN  /\ a.state = "ONCALL" => timers[agent_id] < MaxTimers
        /\ agents' = [agents EXCEPT ![agent_id] =
               [@ EXCEPT !.current_calls = left,
                         !.state = IF a.state = "ONCALL" THEN "ACW"
                                   ELSE IF left = 0 /\ a.state \notin {"PAUSED", "OFFLINE"}
                                   THEN "AVAILABLE" ELSE a.state]]
        /\ active_assignments_total' =
               IF active_assignments_total > 0 THEN active_assignments_total - 1
               ELSE active_assignments_total
        /\ timers' = IF a.state = "ONCALL"
                     THEN [timers EXCEPT ![agent_id] = @ + 1] ELSE timers
        /\ UNCHANGED <<call_store, global_queue, waiting_since, round_robin_counters,
                       active_assignments_partial, clock>>
        /\ UNCHANGED engine_vars

\* a plausible slip: the callback does not look at the state
ToAvailableAlways(agent_id) ==
    /\ timers[agent_id] > 0
    /\ timers' = [timers EXCEPT ![agent_id] = @ - 1]
    /\ agents' = [agents EXCEPT ![agent_id].state = "AVAILABLE"]
    /\ UNCHANGED <<call_store, global_queue, waiting_since, round_robin_counters,
                   active_assignments_total, active_assignments_partial, clock>>
    /\ UNCHANGED engine_vars

\* _to_available: the callback of a started timer
ToAvailable(agent_id) ==
    /\ timers[agent_id] > 0
    /\ timers' = [timers EXCEPT ![agent_id] = @ - 1]
    /\ agents' = [agents EXCEPT ![agent_id].state =
                     IF @ = "ACW" THEN "AVAILABLE" ELSE @]
    /\ UNCHANGED <<call_store, global_queue, waiting_since, round_robin_counters,
                   active_assignments_total, active_assignments_partial, clock>>
    /\ UNCHANGED engine_vars

\* set_agent_state
SetAgentState(agent_id, state) ==
    /\ agents' = [agents EXCEPT ![agent_id].state = state]
    /\ UNCHANGED <<call_store, global_queue, waiting_since, round_robin_counters,
                   active_assignments_total, active_assignments_partial, timers, clock>>
    /\ UNCHANGED engine_vars

\* a minute passes
Tick ==
    /\ clock < MaxNow
    /\ clock' = clock + 1
    /\ UNCHANGED <<agents, call_store, global_queue, waiting_since,
                   round_robin_counters, active_assignments_total,
                   active_assignments_partial, timers>>
    /\ UNCHANGED engine_vars

Complete == \E id \in DOMAIN agents : CompleteCall(id)
TimerFires == \E id \in DOMAIN agents : ToAvailable(id)
SetState == \E id \in DOMAIN agents, state \in AgentStates : SetAgentState(id, state)

RouterNext == EnqueueCall \/ TryRouteOnce \/ Complete \/ TimerFires \/ SetState \/ Tick

RouterSpec == RouterInit /\ [][RouterNext]_vars

-----------------------------------------------------------------------------
(* Claims about the call router *)

\* max_partial_fraction of the router, in percent
MaxPartialFractionPercent == 25

\* C21: in every reachable state of the router the number of active partial
\* assignments is at most max_partial_fraction times the number of active
\* assignments.
C21_PartialShareWithinLimit ==
    active_assignments_partial * 100
        <= MaxPartialFractionPercent * active_assignments_total

\* a step that assigns a call to the agent
AssignedTo(id) == agents'[id].current_calls > agents[id].current_calls

\* C22: under every interleaving of enqueue_call, try_route_once,
\* complete_call, set_agent_state and the ACW timer callbacks, every agent has
\* 0 <= current_calls <= max_concurrent, and a call is only ever assigned to an
\* agent that is AVAILABLE.
C22_ConcurrencyLimit ==
    /\ [](\A id \in DOMAIN agents :
             /\ 0 <= agents[id].current_calls
             /\ agents[id].current_calls <= agents[id].max_concurrent)
    /\ [][\A id \in DOMAIN agents :
             AssignedTo(id) => agents[id].state = "AVAILABLE"]_vars

\* an agent who was made AVAILABLE while on a call has taken a second call and
\* is at its limit of two
C22_Witness ==
    \E id \in DOMAIN agents :
        /\ agents[id].max_concurrent = 2
        /\ agents[id].current_calls = 2
        /\ agents[id].state = "ONCALL"

\* the agents of the teams
AgentIds == UNION {DOMAIN team : team \in Teams}

\* the router with its timers: a started threading.Timer runs its callback
RouterLiveSpec ==
    RouterInit /\ [][RouterNext]_vars /\ \A id \in AgentIds : WF_vars(ToAvailable(id))

Queued(c) == c \in DOMAIN call_store

\* a try_route_once attempt made while call c waits and an agent who can
\* handle it is available
AttemptWithEligible(c) ==
    /\ TryRouteOnce
    /\ Queued(c)
    /\ EligibleAgents(call_store[c]) # {}

\* C23: a queued call for which an eligible agent is available at infinitely
\* many try_route_once attempts is eventually assigned, even when calls of
\* higher priority with the same required skills keep being enqueued.
C23_AgingPreventsStarvation ==
    \A c \in CallIds :
        []<><<AttemptWithEligible(c)>>_vars => [](Queued(c) => <>(~Queued(c)))

StateOf(id) == agents[id].state

\* a step of the timer callback leaves every state but ACW as it is
TimerKeepsOtherStates ==
    \A id \in AgentIds :
        ToAvailable(id) =>
            agents'[id].state = IF StateOf(id) = "ACW" THEN "AVAILABLE" ELSE StateOf(id)

\* only set_agent_state takes an agent from ACW to a state other than AVAILABLE
AcwEndsAvailable ==
    \A id \in AgentIds :
        (StateOf(id) = "ACW" /\ agents'[id].state \notin {"ACW", "AVAILABLE"})
            => \E state \in AgentStates : SetAgentState(id, state)

\* an agent in ACW with a timer running leaves ACW
AcwEnds ==
    \A id \in AgentIds : (StateOf(id) = "ACW" /\ timers[id] > 0) ~> (StateOf(id) # "ACW")

\* C29 as stated: complete_call on an ONCALL agent decrements current_calls by
\* one, puts the agent in ACW and starts the timer; the timer callback makes
\* the agent AVAILABLE if and only if it is still in ACW and never overrides
\* another state; an agent left in ACW is eventually AVAILABLE.
C29_AcwLifecycle ==
    /\ [][\A id \in AgentIds :
             (CompleteCall(id) /\ StateOf(id) = "ONCALL") =>
                 /\ agents'[id].current_calls = agents[id].current_calls - 1
                 /\ agents'[id].state = "ACW"
                 /\ timers'[id] = timers[id] + 1]_vars
    /\ [][TimerKeepsOtherStates]_vars
    /\ [][AcwEndsAvailable]_vars
    /\ AcwEnds

\* C29, amended: complete_call on an ONCALL agent decrements current_calls by
\* one unless it is 0 already, puts the agent in ACW and starts the timer; the
\* rest as stated.
C29_AcwLifecycleClamped ==
    /\ [][\A id \in AgentIds :
             (CompleteCall(id) /\ StateOf(id) = "ONCALL") =>
                 /\ agents'[id].current_calls =
                        Larger(0, agents[id].current_calls - 1)
                 /\ agents'[id].state = "ACW"
                 /\ timers'[id] = timers[id] + 1]_vars
    /\ [][TimerKeepsOtherStates]_vars
    /\ [][AcwEndsAvailable]_vars
    /\ AcwEnds

\* complete_call has put an agent who had two calls into ACW, with one call
\* left and the timer running
C29_Witness ==
    \E id \in DOMAIN agents :
        /\ StateOf(id) = "ACW"
        /\ timers[id] = 1
        /\ agents[id].current_calls = 1

-----------------------------------------------------------------------------
(* Claims about the stages of a processed day *)

\* the items admitted on the last iteration's day
NewOids == Oids(day.new_items)

\* the snapshot of the last iteration
LastSnapshot == daily_snapshots[Len(daily_snapshots)]

\* every item the last iteration touched, as the iteration left it
DayResults ==
    SeqRange(backlog_items) \cup SeqRange(day.resolved_items)
        \cup SeqRange(day.dropped) \cup SeqRange(day.decayed)

\* C24: the stages of a processed day run in the order age, decay, admit, SLA
\* check, resolve, overflow, snapshot: the items admitted on day d are neither
\* aged nor decayed on day d and have days_in_backlog = 0 in day d's state,
\* they are candidates for resolution and for overflow on day d, and the
\* snapshot reflects the list after overflow.
C24_StageOrder ==
    day.processed =>
        /\ NewOids \cap Oids(day.aged) = {}
        /\ NewOids \cap Oids(day.decayed) = {}
        /\ \A x \in DayResults :
               x.oid \in NewOids => x.days_in_backlog = 0 /\ x.aging_date = None
        /\ NewOids \subseteq Oids(day.checked)
        /\ NewOids \subseteq Oids(day.resolved_items) \cup Oids(day.remaining)
        /\ NewOids \subseteq
               Oids(day.resolved_items) \cup Oids(day.dropped) \cup Oids(backlog_items)
        /\ Oids(day.remaining) = Oids(day.dropped) \cup Oids(backlog_items)
        /\ LastSnapshot.snapshot_date = day.date
        /\ LastSnapshot.total_items = Len(backlog_items)
        /\ LastSnapshot.items_propagated = Len(backlog_items)

\* a day on which older items were aged, the item admitted that day was
\* resolved, and an older item was dropped by the overflow stage
C24_Witness ==
    /\ day.processed
    /\ day.start_items # <<>>
    /\ NewOids # {}
    /\ NewOids \subseteq Oids(day.resolved_items)
    /\ day.dropped # <<>>

\* the live items of the last iteration as they went into the SLA check
BeforeCheck == SeqRange(day.aged) \cup SeqRange(day.new_items)

\* C25: with SLA tracking enabled, on a processed day d an unflagged live item
\* becomes sla_breached exactly when it has a due_date and d is strictly after
\* it (an item due on d or later, or without due date, is not flagged on d),
\* and the flag is the one the item carries at the end of the day, also when
\* the item is resolved that day.
C25_SlaFlaggedWhenOverdue ==
    (day.processed /\ request.enable_sla_tracking) =>
        \A y \in SeqRange(day.checked) : \A x \in BeforeCheck :
            (x.oid = y.oid /\ ~x.sla_breached) =>
                /\ y.sla_breached <=> (x.due_date # None /\ day.date > x.due_date)
                /\ \A z \in DayResults : z.oid = y.oid => z.sla_breached = y.sla_breached

\* an item was flagged and resolved on the same day, while an item without
\* due date went through the check unflagged
C25_Witness ==
    /\ day.processed
    /\ request.enable_sla_tracking
    /\ \E x \in BeforeCheck : \E z \in SeqRange(day.resolved_items) :
          x.oid = z.oid /\ ~x.sla_breached /\ z.sla_breached
    /\ \E y \in SeqRange(day.checked) : y.due_date = None /\ ~y.sla_breached

\* the highest priority rank
TopRank == PriorityOrder("critical")

\* C26: under the defer and the escalate strategy, when the list left by
\* resolution holds M > max_backlog_capacity = N items, the overflow stage
\* returns the same M items; it marks exactly M - N of them deferred (resp.
\* escalated), none of which had a higher priority rank than an unmarked item;
\* the unmarked items are unchanged in every field; a deferred item differs in
\* status and due date only, an escalated item in status and priority only,
\* its priority one level up (critical stays critical).
C26_DeferEscalateKeepAll ==
    (/\ day.processed
     /\ request.profile.overflow_strategy \in {"defer", "escalate"}
     /\ request.profile.max_backlog_capacity # None
     /\ Len(day.remaining) > request.profile.max_backlog_capacity)
    => LET before == day.remaining
           after == day.after_overflow
           M == Len(before)
           N == request.profile.max_backlog_capacity
           deferred(i) ==
               /\ after[i].status = "deferred"
               /\ [after[i] EXCEPT !.status = before[i].status,
                                   !.due_date = before[i].due_date] = before[i]
           escalated(i) ==
               /\ after[i].status = "escalated"
               /\ PriorityOrder(after[i].priority)
                      = Smaller(PriorityOrder(before[i].priority) + 1, TopRank)
               /\ [after[i] EXCEPT !.status = before[i].status,
                                   !.priority = before[i].priority] = before[i]
       IN  /\ Len(after) = M
           /\ Len(backlog_items) = M
           /\ day.dropped = <<>>
           /\ \E marked \in SUBSET (1..M) :
                  /\ Cardinality(marked) = M - N
                  /\ \A i \in marked : \A j \in (1..M) \ marked :
                         PriorityOrder(before[i].priority)
                             <= PriorityOrder(before[j].priority)
                  /\ \A i \in marked :
                         IF request.profile.overflow_strategy = "defer"
                         THEN deferred(i) ELSE escalated(i)
                  /\ \A j \in (1..M) \ marked : after[j] = before[j]

\* the escalate strategy marked one of several items, leaving an item of a
\* higher rank as it was
C26_Witness ==
    /\ day.processed
    /\ request.profile.overflow_strategy = "escalate"
    /\ request.profile.max_backlog_capacity = MaxCapacity
    /\ Len(day.remaining) > MaxCapacity + 1
    /\ \E i, j \in 1..Len(day.remaining) :
          /\ day.after_overflow[i].status = "escalated"
          /\ day.after_overflow[i].priority # day.remaining[i].priority
          /\ day.after_overflow[j] = day.remaining[j]
          /\ PriorityOrder(day.remaining[i].priority)
                 < PriorityOrder(day.remaining[j].priority)

\* a step that is a processed day
ProcessedDayStep == DayStep /\ day'.processed

\* C27: at the end of every processed day the propagation_count of a live item
\* is one more than before if the item's status is pending and unchanged if it
\* is deferred or escalated; no other step changes it, and it never decreases.
C27_PropagationCount ==
    [][/\ ProcessedDayStep =>
              \A y \in SeqRange(backlog_items') :
                  \A x \in SeqRange(backlog_items) \cup SeqRange(day'.new_items) :
                      x.oid = y.oid =>
                          y.propagation_count =
                              x.propagation_count
                                  + (IF y.status = "pending" THEN 1 ELSE 0)
       /\ \A x \in AllItems : \A y \in AllItems' :
              x.oid = y.oid =>
                  /\ y.propagation_count >= x.propagation_count
                  /\ ~ProcessedDayStep => y.propagation_count = x.propagation_count]_vars

\* after two processed days a pending item has been counted twice, and an item
\* that was marked on both days has not been counted
C27_Witness ==
    /\ day.processed
    /\ Len(daily_snapshots) = 2
    /\ \E x, y \in SeqRange(backlog_items) :
          /\ x.status = "pending" /\ x.propagation_count = 2
          /\ y.status \in {"deferred", "escalated"}
          /\ y.oid \in Oids(request.initial_backlog_items)
          /\ y.propagation_count = 0

-----------------------------------------------------------------------------
(* Claims about the demand *)

\* other values of new_items_by_complexity and total_estimated_effort_hours
Breakdowns == {<<>>, <<<<"simple", 2>>>>, <<<<"complex", 3>>, <<"moderate", 1>>>>}
AnnouncedHours == {0, 8}

\* the request with these values in every demand entry
WithBreakdown(req, by_complexity, hours) ==
    [req EXCEPT !.daily_demands =
        [d \in DOMAIN @ |->
            [@[d] EXCEPT !.new_items_by_complexity = by_complexity,
                         !.total_estimated_effort_hours = hours]]]

\* the loop is about to process the date current_date
DayAhead ==
    /\ pc = "loop"
    /\ current_date <= request.end_date
    /\ current_date \in DOMAIN request.daily_capacities

\* C28: new_items_by_complexity and total_estimated_effort_hours are dead
\* input: from the same state and with the same random draws, a day of the
\* request and the day of a request that differs in these two fields only
\* admit the same items and leave the same live list, counter and snapshot.
C28_ComplexityBreakdownUnused ==
    DayAhead =>
        \A by_complexity \in Breakdowns, hours \in AnnouncedHours :
            LET other == WithBreakdown(request, by_complexity, hours)
            IN  /\ NewItemDraws(other, current_date) = NewItemDraws(request, current_date)
                /\ \A decay_draws \in DecayDraws(request, backlog_items),
                      item_draws \in NewItemDraws(request, current_date) :
                       DayResult(other, backlog_items, item_counter, current_date,
                                 decay_draws, item_draws)
                           = DayResult(request, backlog_items, item_counter,
                                       current_date, decay_draws, item_draws)

\* the demand announced three complex items of eight hours, and one simple
\* item of 30 minutes was admitted
C28_Witness ==
    /\ day.processed
    /\ day.date \in DOMAIN request.daily_demands
    /\ request.daily_demands[day.date].new_items_by_complexity = <<<<"complex", 3>>>>
    /\ request.daily_demands[day.date].total_estimated_effort_hours = 8
    /\ Len(day.new_items) = 1
    /\ day.new_items[1].complexity = "simple"
    /\ day.new_items[1].estimated_effort_minutes = 30

-----------------------------------------------------------------------------
(* Claims about the items of a run *)

\* the lists have no item in common
Disjoint(lists) ==
    \A i, j \in 1..Len(lists) : i # j => Oids(lists[i]) \cap Oids(lists[j]) = {}

\* no item is twice in the list
NoRepeats(list) == Cardinality(Oids(list)) = Len(list)

\* total_items of the snapshot before the last one, or the initial count
PreviousTotal ==
    IF Len(daily_snapshots) > 1
    THEN daily_snapshots[Len(daily_snapshots) - 1].total_items
    ELSE Len(request.initial_backlog_items)

\* C30: after every processed day every item that was in the list or was
\* admitted that day is in exactly one of the live list, the decayed items,
\* the resolved items and the rejected or outsourced items, so that the live
\* size is the size before plus admitted minus decayed, resolved and dropped;
\* every item of the run is either live or was taken out once; with
\* decay_rate = 0 and defer, escalate or no ceiling, total_items is the
\* previous snapshot's total_items (or the initial count) plus new_items minus
\* items_resolved; and the final backlog count of the response is the last
\* snapshot's total_items.
C30_ItemConservation ==
    /\ day.processed =>
           LET parts == <<backlog_items, day.decayed, day.resolved_items, day.dropped>>
           IN  /\ Disjoint(parts)
               /\ \A i \in 1..Len(parts) : NoRepeats(parts[i])
               /\ Disjoint(<<day.start_items, day.new_items>>)
               /\ UNION {Oids(parts[i]) : i \in 1..Len(parts)}
                      = Oids(day.start_items) \cup NewOids
               /\ Len(backlog_items)
                      = Len(day.start_items) + Len(day.new_items) - Len(day.decayed)
                            - Len(day.resolved_items) - Len(day.dropped)
               /\ \A x \in SeqRange(day.decayed) \cup SeqRange(day.resolved_items) :
                      x.status = "completed"
               /\ \A x \in SeqRange(day.dropped) : x.status \in {"rejected", "outsourced"}
               /\ LastSnapshot.new_items = Len(day.new_items)
               /\ LastSnapshot.items_resolved = Len(day.resolved_items)
               /\ (/\ request.profile.decay_rate = 0
                   /\ \/ request.profile.overflow_strategy \in {"defer", "escalate"}
                      \/ request.profile.max_backlog_capacity = None)
                  => LastSnapshot.total_items
                         = PreviousTotal + LastSnapshot.new_items
                               - LastSnapshot.items_resolved
    /\ pc # "new" =>
           /\ Oids(backlog_items) \cup {x.oid : x \in removed_items} = 1..item_counter
           /\ Oids(backlog_items) \cap {x.oid : x \in removed_items} = {}
           /\ NoRepeats(backlog_items)
           /\ Cardinality({x.oid : x \in removed_items}) = Cardinality(removed_items)
    /\ pc = "done" => Len(backlog_items) = LastSnapshot.total_items

\* the second day of a run under a ceiling with defer or escalate admitted an
\* item, resolved an item and marked the overflow; and the run has returned
C30_Witness ==
    /\ pc = "done"
    /\ day.processed
    /\ Len(daily_snapshots) = 2
    /\ request.profile.decay_rate = 0
    /\ request.profile.overflow_strategy \in {"defer", "escalate"}
    /\ LastSnapshot.new_items = 1
    /\ LastSnapshot.items_resolved = 1
    /\ LastSnapshot.overflow_count > 0
    /\ PreviousTotal > 0

====
